---- MODULE Spec2Model ----
(***************************************************************************)
(* Model of the natural-language analytics bot of rappi-intelligent-ops:   *)
(* the time-window helper of the executor (src/bot/executor.py), the       *)
(* conversational memory (src/bot/memory.py), the rule parser              *)
(* (src/bot/parser.py) and the chat endpoint (app/api/main.py).            *)
(*                                                                         *)
(* Python strings are modelled as tuples of one-character strings, so that *)
(* substring tests, regular expressions, case folding and number parsing   *)
(* are computed and not assumed.  Names that are only compared (tasks,     *)
(* countries, dimensions) are model strings, None is the model value       *)
(* "None", and an absent text is NoText.                                   *)
(***************************************************************************)
EXTENDS Integers, Sequences, FiniteSets, TLC

None == "None"

\* None where a text (a tuple of characters) is expected
NoText == <<"None">>

\* None where a number is expected
NoNumber == -1

(***************************************************************************)
(* Characters and strings                                                  *)
(***************************************************************************)
DigitChars == <<"0", "1", "2", "3", "4", "5", "6", "7", "8", "9">>

IsDigit(c) == \E i \in 1..10 : DigitChars[i] = c

DigitVal(c) == (CHOOSE i \in 1..10 : DigitChars[i] = c) - 1

\* int(s) for a non-empty string of decimal digits
RECURSIVE ParseInt(_)
ParseInt(s) ==
    IF Len(s) = 0 THEN 0
    ELSE 10 * ParseInt(SubSeq(s, 1, Len(s) - 1)) + DigitVal(s[Len(s)])

\* str(n) for a natural number: the decimal rendering, used to build inputs
RECURSIVE Digits(_)
Digits(n) ==
    IF n < 10 THEN <<DigitChars[n + 1]>>
    ELSE Digits(n \div 10) \o <<DigitChars[(n % 10) + 1]>>

AllDigits(s) == Len(s) >= 1 /\ \A i \in 1..Len(s) : IsDigit(s[i])

LowerAlpha ==
    <<"a", "b", "c", "d", "e", "f", "g", "h", "i", "j", "k", "l", "m",
      "n", "o", "p", "q", "r", "s", "t", "u", "v", "w", "x", "y", "z",
      "a'", "e'", "i'", "o'", "u'", "n~">>

\* an accented letter is one character, written with its mark: "o'" is o-acute
UpperAlpha ==
    <<"A", "B", "C", "D", "E", "F", "G", "H", "I", "J", "K", "L", "M",
      "N", "O", "P", "Q", "R", "S", "T", "U", "V", "W", "X", "Y", "Z",
      "A'", "E'", "I'", "O'", "U'", "N~">>

ToUpper == [c \in {LowerAlpha[i] : i \in 1..Len(LowerAlpha)} |->
               UpperAlpha[CHOOSE i \in 1..Len(LowerAlpha) : LowerAlpha[i] = c]]

ToLower == [c \in {UpperAlpha[i] : i \in 1..Len(UpperAlpha)} |->
               LowerAlpha[CHOOSE i \in 1..Len(UpperAlpha) : UpperAlpha[i] = c]]

\* str.upper() and str.lower(), character by character
UpperChar(c) == IF c \in DOMAIN ToUpper THEN ToUpper[c] ELSE c

LowerChar(c) == IF c \in DOMAIN ToLower THEN ToLower[c] ELSE c

Upper(s) == [i \in 1..Len(s) |-> UpperChar(s[i])]

Lower(s) == [i \in 1..Len(s) |-> LowerChar(s[i])]

IsSpace(c) == c = " "

\* str.strip(): drop leading and trailing whitespace
RECURSIVE LStrip(_)
LStrip(s) ==
    IF Len(s) > 0 /\ IsSpace(s[1]) THEN LStrip(Tail(s)) ELSE s

RECURSIVE RStrip(_)
RStrip(s) ==
    IF Len(s) > 0 /\ IsSpace(s[Len(s)]) THEN RStrip(SubSeq(s, 1, Len(s) - 1)) ELSE s

Strip(s) == LStrip(RStrip(s))

\* needle in haystack, for two strings
Contains(haystack, needle) ==
    \E i \in 0..(Len(haystack) - Len(needle)) :
        \A j \in 1..Len(needle) : haystack[i + j] = needle[j]

\* " ".join(parts)
RECURSIVE Join(_)
Join(parts) ==
    IF Len(parts) = 0 THEN <<>>
    ELSE IF Len(parts) = 1 THEN parts[1]
    ELSE parts[1] \o <<" ">> \o Join(Tail(parts))

\* re.sub(r"\s+", " ", s): every run of blanks becomes one blank
RECURSIVE CollapseSpaces(_)
CollapseSpaces(s) ==
    IF Len(s) = 0 THEN <<>>
    ELSE IF IsSpace(s[1]) /\ Len(s) >= 2 /\ IsSpace(s[2]) THEN CollapseSpaces(Tail(s))
    ELSE <<s[1]>> \o CollapseSpaces(Tail(s))

(***************************************************************************)
(* executor._offset_bounds                                                 *)
(***************************************************************************)
\* re.fullmatch(r"L(\d+)W", s): the digits of the group, or NoText
MatchLW(s) ==
    IF Len(s) >= 3 /\ s[1] = "L" /\ s[Len(s)] = "W" /\ AllDigits(SubSeq(s, 2, Len(s) - 1))
    THEN SubSeq(s, 2, Len(s) - 1)
    ELSE NoText

\* re.fullmatch(r"L(\d+)W-L(\d+)W", r): the two groups <<a, b>>, or <<>>
MatchRange(r) ==
    IF \E i \in 1..Len(r) : r[i] = "-"
    THEN LET i == CHOOSE j \in 1..Len(r) : r[j] = "-" /\ \A h \in 1..(j - 1) : r[h] # "-"
             a == MatchLW(SubSeq(r, 1, i - 1))
             b == MatchLW(SubSeq(r, i + 1, Len(r)))
         IN  IF a # NoText /\ b # NoText THEN <<a, b>> ELSE <<>>
    ELSE <<>>

\* re.fullmatch(r"L(\d+)W-L0W", r): the group, or NoText
MatchRangeToZero(r) ==
    LET m == MatchRange(r)
    IN  IF m # <<>> /\ m[2] = <<"0">> THEN m[1] ELSE NoText

Max(a, b) == IF a >= b THEN a ELSE b
Min(a, b) == IF a <= b THEN a ELSE b

\* the off-by-one slip: 'LkW-L0W' read as offsets 0..k
offset_bounds_inclusive_k(range_str) ==
    IF range_str = NoText \/ Len(range_str) = 0 THEN <<0, 0>>
    ELSE LET r  == Upper(Strip(range_str))
             m  == MatchRangeToZero(r)
             m2 == MatchRange(r)
         IN  IF r = <<"L", "0", "W">> THEN <<0, 0>>
             ELSE IF m # NoText THEN <<0, ParseInt(m)>>
             ELSE IF m2 # <<>>
                  THEN <<Min(ParseInt(m2[1]), ParseInt(m2[2])),
                         Max(ParseInt(m2[1]), ParseInt(m2[2]))>>
             ELSE <<0, 0>>

offset_bounds(range_str) ==
    IF range_str = NoText \/ Len(range_str) = 0 THEN <<0, 0>>
    ELSE LET r  == Upper(Strip(range_str))
             m  == MatchRangeToZero(r)
             m2 == MatchRange(r)
         IN  IF r = <<"L", "0", "W">> THEN <<0, 0>>
             ELSE IF m # NoText THEN <<0, Max(ParseInt(m) - 1, 0)>>
             ELSE IF m2 # <<>>
                  THEN <<Min(ParseInt(m2[1]), ParseInt(m2[2])),
                         Max(ParseInt(m2[1]), ParseInt(m2[2]))>>
             ELSE <<0, 0>>

\* the characters of a string literal
Chars(s) == [i \in 1..Len(s) |-> SubSeq(s, i, i)]

\* a letter and the mark written after it (' or ~) are one character
RECURSIVE WithMarks(_)
WithMarks(cs) ==
    IF Len(cs) = 0 THEN <<>>
    ELSE IF Len(cs) >= 2 /\ cs[2] \in {"'", "~"}
         THEN <<cs[1] \o cs[2]>> \o WithMarks(SubSeq(cs, 3, Len(cs)))
         ELSE <<cs[1]>> \o WithMarks(Tail(cs))

\* a Python str as the sequence of its characters
Txt == [s \in STRING |-> WithMarks(Chars(s))]

(***************************************************************************)
(* memory.Memory                                                           *)
(***************************************************************************)
\* bool(v) for an Optional[str]: None and the empty string are falsy
Truthy(v) == v # None /\ v # ""

\* dict.get(k, default); a dict is a function from its keys
DictGet(d, k, default) == IF k \in DOMAIN d THEN d[k] ELSE default

EmptyDict == [k \in {} |-> None]

\* the spec handed over carries no filters object
NoFilters == [absent |-> TRUE]

\* getattr(filters, name, None) if filters else None
FilterAttr(filters, name) == IF name \in DOMAIN filters THEN filters[name] ELSE None

\* Memory.__init__
NewMemory == [country |-> None, city |-> None, zone |-> None, zone_type |-> None]

\* the slip of testing group_by without lower-casing it
GroupsByCountryExact(group_by) ==
    \E i \in 1..Len(group_by) : Txt[group_by[i]] = Txt["country"]

\* "country" in group_by_norm, every string of group_by lower-cased
GroupsByCountry(group_by) ==
    \E i \in 1..Len(group_by) : Lower(Txt[group_by[i]]) = Txt["country"]

\* the slip of leaving state["country"] alone when the parser's context
\* does not mark the country explicit
hygiene_country_sticky(state, spec) ==
    LET context          == spec.context
        explicit_country == DictGet(context, "explicit_country", FALSE)
        incoming_country == FilterAttr(spec.filters, "country")
    IN  IF GroupsByCountry(spec.group_by) THEN None
        ELSE IF context # EmptyDict
             THEN IF explicit_country /\ Truthy(incoming_country)
                  THEN incoming_country
                  ELSE state.country
             ELSE IF Truthy(incoming_country) THEN incoming_country ELSE None

\* the country hygiene of update_from_spec: the new state["country"]
hygiene_country(state, spec) ==
    LET context          == spec.context
        explicit_country == DictGet(context, "explicit_country", FALSE)
        incoming_country == FilterAttr(spec.filters, "country")
    IN  IF GroupsByCountry(spec.group_by) THEN None
        ELSE IF context # EmptyDict
             THEN IF explicit_country /\ Truthy(incoming_country)
                  THEN incoming_country
                  ELSE None
             ELSE IF Truthy(incoming_country) THEN incoming_country ELSE None

\* the slip of an unconditional assignment: a spec without the field erases it
persist_always(old, incoming) == incoming

\* CITY, ZONE, ZONE TYPE: persisted when the spec brings a value
persist(old, incoming) == IF Truthy(incoming) THEN incoming ELSE old

\* a variant that drops the remembered zone when the city changes, after the
\* zone of the spec has been stored
update_from_spec_city_change(state, spec) ==
    LET incoming_city == FilterAttr(spec.filters, "city")
    IN  [country   |-> hygiene_country(state, spec),
         city      |-> persist(state.city, incoming_city),
         zone      |-> IF Truthy(incoming_city) /\ incoming_city # state.city
                       THEN None
                       ELSE persist(state.zone, FilterAttr(spec.filters, "zone")),
         zone_type |-> persist(state.zone_type, FilterAttr(spec.filters, "zone_type"))]

\* Memory.update_from_spec: the state it leaves
update_from_spec(state, spec) ==
    [country   |-> hygiene_country(state, spec),
     city      |-> persist(state.city, FilterAttr(spec.filters, "city")),
     zone      |-> persist(state.zone, FilterAttr(spec.filters, "zone")),
     zone_type |-> persist(state.zone_type, FilterAttr(spec.filters, "zone_type"))]

\* Memory.reset
reset(state) == [k \in DOMAIN state |-> None]

\* Memory.get: a copy of the state
get(state) == state

(***************************************************************************)
(* parser: normalisation and task detection                                *)
(***************************************************************************)
\* _strip_accents: NFD, then the combining marks dropped
StripAccentChar(c) ==
    CASE c = "a'" -> "a"
      [] c = "e'" -> "e"
      [] c = "i'" -> "i"
      [] c = "o'" -> "o"
      [] c = "u'" -> "u"
      [] c = "n~" -> "n"
      [] OTHER -> c

strip_accents(text) == [i \in 1..Len(text) |-> StripAccentChar(text[i])]

\* parser.normalize
normalize(text) == Strip(CollapseSpaces(strip_accents(Lower(text))))

\* any(w in qn for w in words)
AnyIn(words, qn) == \E i \in 1..Len(words) : Contains(qn, Txt[words[i]])

CompareKeywords   == <<"compara", "comparar", "diferencia entre">>
TrendKeywords     == <<"evolucion", "tendencia", "trend">>
AggregateKeywords == <<"promedio", "media", "suma", "total">>
GrowthKeywords    == <<"crecen", "crecimiento", "aumentan", "suben">>
RankingKeywords   == <<"top", "bottom", "mayor", "menor", "mejores", "peores">>

\* the decision list of detect_task on the normalized question
task_in(qn) ==
    IF AnyIn(CompareKeywords, qn) THEN "compare"
    ELSE IF AnyIn(TrendKeywords, qn) THEN "trend"
    ELSE IF AnyIn(AggregateKeywords, qn) THEN "aggregate"
    ELSE IF Contains(qn, Txt["alto"]) /\ Contains(qn, Txt["bajo"]) THEN "multivariable"
    ELSE IF AnyIn(GrowthKeywords, qn) THEN "inference"
    ELSE IF Contains(qn, Txt["zonas problem"]) \/ Contains(qn, Txt["problematic"])
         THEN "contextual"
    ELSE IF AnyIn(RankingKeywords, qn) THEN "filter"
    ELSE "filter"

\* the slip of testing the growth keywords before "alto" and "bajo"
detect_task_growth_first(q) ==
    LET qn == normalize(q)
    IN  IF AnyIn(CompareKeywords, qn) THEN "compare"
        ELSE IF AnyIn(TrendKeywords, qn) THEN "trend"
        ELSE IF AnyIn(AggregateKeywords, qn) THEN "aggregate"
        ELSE IF AnyIn(GrowthKeywords, qn) THEN "inference"
        ELSE IF Contains(qn, Txt["alto"]) /\ Contains(qn, Txt["bajo"]) THEN "multivariable"
        ELSE IF Contains(qn, Txt["zonas problem"]) \/ Contains(qn, Txt["problematic"])
             THEN "contextual"
        ELSE IF AnyIn(RankingKeywords, qn) THEN "filter"
        ELSE "filter"

\* parser.detect_task
detect_task(q) == task_in(normalize(q))

(***************************************************************************)
(* dicts with string keys, in insertion order: sequences of <<key, value>> *)
(***************************************************************************)
HasKey(d, k) == \E i \in 1..Len(d) : d[i][1] = k

\* d[k] = v
DictSet(d, k, v) ==
    IF HasKey(d, k)
    THEN [i \in 1..Len(d) |-> IF d[i][1] = k THEN <<k, v>> ELSE d[i]]
    ELSE Append(d, <<k, v>>)

\* d.setdefault(k, v)
DictSetDefault(d, k, v) == IF HasKey(d, k) THEN d ELSE Append(d, <<k, v>>)

\* the least index of a set of indexes, 0 for the empty set
FirstOf(hits) == IF hits = {} THEN 0 ELSE CHOOSE i \in hits : \A j \in hits : i <= j

\* next((vals for key, vals in d.items() if key and key in qn), None): the
\* index of the first entry whose key occurs in qn, 0 when there is none
FirstKeyIn(d, qn) ==
    FirstOf({i \in 1..Len(d) : Len(d[i][1]) > 0 /\ Contains(qn, d[i][1])})

(***************************************************************************)
(* parser._load_geo_catalog                                                *)
(***************************************************************************)
\* SELECT DISTINCT COUNTRY, CITY, ZONE FROM zone_weekly_metrics
WarehouseRows ==
    <<[COUNTRY |-> "Colombia", CITY |-> "Bogota'", ZONE |-> "Chapinero"],
      [COUNTRY |-> "Colombia", CITY |-> "Medellin", ZONE |-> "Poblado"],
      [COUNTRY |-> "Mexico", CITY |-> "Monterrey", ZONE |-> None]>>

\* isinstance(v, str) and v.strip()
IsName(v) == v # None /\ Len(Strip(Txt[v])) > 0

\* isinstance(v, str)
StrOrNone(v) == v

RECURSIVE IndexRows(_, _)
IndexRows(rows, idx) ==
    IF Len(rows) = 0 THEN idx
    ELSE LET row == rows[1]
             z == IF IsName(row.ZONE)
                  THEN DictSet(idx.zones, normalize(Txt[row.ZONE]),
                               <<row.ZONE, StrOrNone(row.CITY), StrOrNone(row.COUNTRY)>>)
                  ELSE idx.zones
             c == IF IsName(row.CITY)
                  THEN DictSetDefault(idx.cities, normalize(Txt[row.CITY]),
                                      <<row.CITY, StrOrNone(row.COUNTRY)>>)
                  ELSE idx.cities
             k == IF IsName(row.COUNTRY)
                  THEN DictSetDefault(idx.countries, normalize(Txt[row.COUNTRY]), row.COUNTRY)
                  ELSE idx.countries
         IN  IndexRows(Tail(rows), [zones |-> z, cities |-> c, countries |-> k])

\* duckdb missing, no warehouse file, or the connection or the query failed
EmptyGeo == [zones |-> <<>>, cities |-> <<>>, countries |-> <<>>]

\* the three indexes built from the warehouse, with the built-in entries
LoadedGeo ==
    LET idx == IndexRows(WarehouseRows, EmptyGeo)
        c1  == DictSetDefault(idx.cities, Txt["cdmx"], <<"Ciudad de Mexico", "Mexico">>)
        c2  == DictSetDefault(c1, Txt["mexico city"], <<"Ciudad de Mexico", "Mexico">>)
        c3  == DictSetDefault(c2, Txt["bogota"], <<"Bogota", "Colombia">>)
        z1  == DictSetDefault(idx.zones, Txt["chapinero"], <<"Chapinero", "Bogota", "Colombia">>)
    IN  [zones |-> z1, cities |-> c3, countries |-> idx.countries]

(***************************************************************************)
(* metrics: the catalog and its indexes                                    *)
(***************************************************************************)
\* load_metric_catalog when catalog/metrics.yaml does not exist
FallbackCatalog ==
    <<[label |-> "Orders", data_name |-> "Orders",
       synonyms |-> <<"orders", "ordenes", "o'rdenes", "pedidos">>,
       value_type |-> "count", agg_default |-> "sum",
       higher_is_better |-> TRUE, range_hint |-> None]>>

\* a catalog file that declares the four metrics of the warehouse
DeclaredCatalog ==
    <<[label |-> "Lead Penetration", data_name |-> "Lead Penetration",
       synonyms |-> <<"penetracio'n de leads", "lead pen">>,
       value_type |-> "ratio", agg_default |-> "mean",
       higher_is_better |-> TRUE, range_hint |-> "0..1"],
      [label |-> "Perfect Orders", data_name |-> "Perfect Orders",
       synonyms |-> <<"o'rdenes perfectas", "pedidos perfectos">>,
       value_type |-> "ratio", agg_default |-> "mean",
       higher_is_better |-> TRUE, range_hint |-> "0..1"],
      [label |-> "Gross Profit UE", data_name |-> "Gross Profit UE",
       synonyms |-> <<"gross profit", "margen por orden">>,
       value_type |-> "currency", agg_default |-> "mean",
       higher_is_better |-> TRUE, range_hint |-> None],
      [label |-> "Orders", data_name |-> "Orders",
       synonyms |-> <<"orders", "ordenes", "o'rdenes", "pedidos">>,
       value_type |-> "count", agg_default |-> "sum",
       higher_is_better |-> TRUE, range_hint |-> None]>>

\* metrics._normalize: lower case and blanks, accents kept
metrics_normalize(s) == Strip(CollapseSpaces(Lower(s)))

RECURSIVE IndexWords(_, _, _)
IndexWords(words, data_name, idx) ==
    IF Len(words) = 0 THEN idx
    ELSE IndexWords(Tail(words), data_name,
                    IF Len(Txt[words[1]]) = 0 THEN idx
                    ELSE DictSet(idx, metrics_normalize(Txt[words[1]]), data_name))

\* _SYNONYM_INDEX: label, data_name and synonyms of every metric
RECURSIVE SynonymIndex(_, _)
SynonymIndex(cat, idx) ==
    IF Len(cat) = 0 THEN idx
    ELSE SynonymIndex(Tail(cat),
                      IndexWords(<<cat[1].label, cat[1].data_name>> \o cat[1].synonyms,
                                 cat[1].data_name, idx))

\* the catalog entry of a data_name, None when the catalog has none
MetaOf(cat, data_name) ==
    IF \E i \in 1..Len(cat) : cat[i].data_name = data_name
    THEN cat[CHOOSE i \in 1..Len(cat) :
                /\ cat[i].data_name = data_name
                /\ \A j \in 1..(i - 1) : cat[j].data_name # data_name]
    ELSE [data_name |-> None]

\* what a process can have loaded: the metric catalog with its synonym
\* index, and the geo catalog; the variable env names one of each
Catalogs ==
    [c \in {"fallback", "declared"} |->
        LET cat == IF c = "fallback" THEN FallbackCatalog ELSE DeclaredCatalog
        IN  [metrics |-> cat, synonyms |-> SynonymIndex(cat, <<>>)]]

GeoCatalogs ==
    [g \in {"none", "warehouse"} |-> IF g = "none" THEN EmptyGeo ELSE LoadedGeo]

\* the data_name of entry i of the synonym index, None when i is no entry or
\* no metric of the catalog has that data_name
data_name_at(cat, i) ==
    IF i = 0 THEN None
    ELSE IF MetaOf(cat.metrics, cat.synonyms[i][2]).data_name = None THEN None
    ELSE cat.synonyms[i][2]

\* metrics.match_metric_from_catalog: the data_name matched, or None
match_metric_from_catalog(utterance, env) ==
    data_name_at(Catalogs[env.catalog],
                 FirstKeyIn(Catalogs[env.catalog].synonyms, metrics_normalize(utterance)))

\* the catalog entry, or the neutral properties when the catalog has none
meta_or_neutral(meta, data_name) ==
    IF meta.data_name # None THEN meta
    ELSE [data_name |-> data_name, value_type |-> "ratio", agg_default |-> "mean",
          higher_is_better |-> TRUE, range_hint |-> "0..1"]

\* metrics.props_for_metric
props_for_metric(data_name, env) ==
    meta_or_neutral(MetaOf(Catalogs[env.catalog].metrics, data_name), data_name)

\* _LABEL_BY_DATA.get(data_name, data_name)
label_or_name(meta, data_name) ==
    IF meta.data_name # None THEN meta.label ELSE data_name

\* metrics.label_for_metric
label_for_metric(data_name, env) ==
    label_or_name(MetaOf(Catalogs[env.catalog].metrics, data_name), data_name)

(***************************************************************************)
(* parser: metrics, locations, segments, time                              *)
(***************************************************************************)
\* METRIC_SYNONYMS, in the order of the dict
METRIC_SYNONYMS ==
    <<<<"Lead Penetration",
        <<"lead penetration", "penetracion de leads", "penetracio'n de leads",
          "penetracion de clientes potenciales", "penetracio'n de clientes potenciales",
          "penetracion de clientes", "penetracio'n de clientes",
          "penetracion de usuarios", "penetracio'n de usuarios",
          "lp", "lead pen", "% lead", "penetracion", "penetration">>>>,
      <<"Perfect Orders",
        <<"perfect orders", "ordenes perfectas", "o'rdenes perfectas",
          "perfect order", "pedido perfecto", "pedidos perfectos",
          "cumplimiento de pedido perfecto", "nivel de cumplimiento de pedido perfecto",
          "po", "% po">>>>,
      <<"Gross Profit UE",
        <<"gross profit ue", "gp ue", "margen por orden", "gross profit per order",
          "gross profit", "gp_ue", "gp/ue">>>>,
      <<"Orders",
        <<"orders", "ordenes", "o'rdenes", "pedidos", "num orders",
          "numero de ordenes", "nu'mero de o'rdenes", "cantidad de ordenes",
          "cantidad de o'rdenes", "cantidad de pedidos">>>>>>

\* the canonical name of entry byName of METRIC_SYNONYMS, then of entry bySyn
match_metric_at(byName, bySyn) ==
    IF byName # 0 THEN METRIC_SYNONYMS[byName][1]
    ELSE IF bySyn # 0 THEN METRIC_SYNONYMS[bySyn][1]
    ELSE None

\* a canonical name in the question, then a synonym, in the order of the dict
match_metric_in(qn) ==
    match_metric_at(
        FirstOf({i \in 1..Len(METRIC_SYNONYMS) :
                    Contains(qn, Lower(Txt[METRIC_SYNONYMS[i][1]]))}),
        FirstOf({i \in 1..Len(METRIC_SYNONYMS) : AnyIn(METRIC_SYNONYMS[i][2], qn)}))

\* parser.match_metric
match_metric(q) == match_metric_in(normalize(q))

\* parser.normalize_canonical_metric_for_data: METRIC_ALIASES_TO_DATA is the identity
normalize_canonical_metric_for_data(canonical) == canonical

\* countries_by_name, in the order of the dict
countries_by_name ==
    <<<<Txt["colombia"], "Colombia">>, <<Txt["mexico"], "Mexico">>,
      <<Txt["peru"], "Peru">>, <<Txt["chile"], "Chile">>,
      <<Txt["argentina"], "Argentina">>, <<Txt["brasil"], "Brasil">>,
      <<Txt["uruguay"], "Uruguay">>, <<Txt["ecuador"], "Ecuador">>>>

\* entry i of the country index, then entry k of countries_by_name
country_at(countries, i, k) ==
    IF i # 0 THEN countries[i][2]
    ELSE IF k # 0 THEN countries_by_name[k][2]
    ELSE None

\* the country of the catalog named in the question, then a built-in one
country_in(countries, qn) ==
    country_at(countries, FirstKeyIn(countries, qn), FirstKeyIn(countries_by_name, qn))

\* parser.extract_country
extract_country(q, env) == country_in(GeoCatalogs[env.geo].countries, normalize(q))

\* the location of zone z of the index, then of city c
location_at(geo, z, c) ==
    IF z # 0 THEN <<geo.zones[z][2][3], geo.zones[z][2][2], geo.zones[z][2][1]>>
    ELSE IF c # 0 THEN <<geo.cities[c][2][2], geo.cities[c][2][1], None>>
    ELSE <<None, None, None>>

\* the first zone named in the question, then the first city
location_in(geo, qn) ==
    location_at(geo, FirstKeyIn(geo.zones, qn), FirstKeyIn(geo.cities, qn))

\* parser.extract_location: <<country, city, zone>>
extract_location(q, env) == location_in(GeoCatalogs[env.geo], normalize(q))

\* naming both segments names none
zone_type_of(has_wealthy, has_non_wealthy) ==
    IF has_wealthy /\ has_non_wealthy THEN None
    ELSE IF has_wealthy THEN "Wealthy"
    ELSE IF has_non_wealthy THEN "Non Wealthy"
    ELSE None

zone_type_in(qn) ==
    zone_type_of(AnyIn(<<"wealthy", "rica", "altas rentas">>, qn),
                 AnyIn(<<"non wealthy", "non-wealthy", "no rica", "popular">>, qn))

\* parser.extract_zone_type
extract_zone_type(q) == zone_type_in(normalize(q))

\* parser.mentions_zone_segments
mentions_zone_segments(q) ==
    AnyIn(<<"wealthy", "non wealthy", "non-wealthy", "rica", "no rica", "popular">>,
          normalize(q))

\* parser.ask_is_this_week
ask_is_this_week(q) == AnyIn(<<"esta semana", "semana actual">>, normalize(q))

\* s has the string w at position i
At(s, i, w) ==
    /\ i >= 1
    /\ i + Len(w) - 1 <= Len(s)
    /\ \A j \in 1..Len(w) : s[i + j - 1] = w[j]

\* the end of the run of characters satisfying the test that starts at i
RECURSIVE DigitsEnd(_, _)
DigitsEnd(s, i) == IF i <= Len(s) /\ IsDigit(s[i]) THEN DigitsEnd(s, i + 1) ELSE i

RECURSIVE SpacesEnd(_, _)
SpacesEnd(s, i) == IF i <= Len(s) /\ IsSpace(s[i]) THEN SpacesEnd(s, i + 1) ELSE i

\* ultim[oa]s? at position i: the position after it, 0 when it is not there
UltimEnd(s, i) ==
    IF At(s, i, Txt["ultim"]) /\ i + 5 <= Len(s) /\ s[i + 5] \in {"o", "a"}
    THEN IF i + 6 <= Len(s) /\ s[i + 6] = "s" THEN i + 7 ELSE i + 6
    ELSE 0

SPANISH_NUMBER_WORDS ==
    <<<<"uno", 1>>, <<"una", 1>>, <<"dos", 2>>, <<"tres", 3>>, <<"cuatro", 4>>,
      <<"cinco", 5>>, <<"seis", 6>>, <<"siete", 7>>, <<"ocho", 8>>, <<"nueve", 9>>,
      <<"diez", 10>>, <<"once", 11>>, <<"doce", 12>>, <<"veinte", 20>>>>

\* (ultim[oa]s?)\s+(\d+)\s+semanas? matched at position i: int(group 2), or NoNumber
LastWeeksDigitsAt(s, i) ==
    IF \E e \in {UltimEnd(s, i)} : e # 0 /\
       \E d \in {SpacesEnd(s, e)} : d > e /\
       \E d2 \in {DigitsEnd(s, d)} : d2 > d /\
       \E w \in {SpacesEnd(s, d2)} : w > d2 /\ At(s, w, Txt["semana"])
    THEN ParseInt(SubSeq(s, SpacesEnd(s, UltimEnd(s, i)),
                         DigitsEnd(s, SpacesEnd(s, UltimEnd(s, i))) - 1))
    ELSE NoNumber

\* the number word of SPANISH_NUMBER_WORDS at position d that blanks and
\* semanas? follow, 0 when there is none
NumberWordAt(s, d) ==
    FirstOf({n \in 1..Len(SPANISH_NUMBER_WORDS) :
                \E word \in {Txt[SPANISH_NUMBER_WORDS[n][1]]} :
                \E w \in {SpacesEnd(s, d + Len(word))} :
                    /\ At(s, d, word)
                    /\ w > d + Len(word)
                    /\ At(s, w, Txt["semana"])})

\* (ultim[oa]s?)\s+(<number word>)\s+semanas? matched at position i: the number, or NoNumber
LastWeeksWordAt(s, i) ==
    IF \E e \in {UltimEnd(s, i)} : e # 0 /\
       \E d \in {SpacesEnd(s, e)} : d > e /\ NumberWordAt(s, d) # 0
    THEN SPANISH_NUMBER_WORDS[NumberWordAt(s, SpacesEnd(s, UltimEnd(s, i)))][2]
    ELSE NoNumber

\* the number matched at m by the first pattern, then at m2 by the second
last_n_weeks_at(qn, m, m2) ==
    IF m # 0 THEN LastWeeksDigitsAt(qn, m)
    ELSE IF m2 # 0 THEN LastWeeksWordAt(qn, m2)
    ELSE NoNumber

\* the leftmost match of the first pattern, then of the second
last_n_weeks_in(qn) ==
    last_n_weeks_at(qn,
                    FirstOf({i \in 1..Len(qn) : LastWeeksDigitsAt(qn, i) # NoNumber}),
                    FirstOf({i \in 1..Len(qn) : LastWeeksWordAt(qn, i) # NoNumber}))

\* parser.ask_last_n_weeks: the number of weeks asked for, None without a match
ask_last_n_weeks(q) == last_n_weeks_in(normalize(q))

(***************************************************************************)
(* parser.decide_order_and_n                                               *)
(***************************************************************************)
\* [a-z]
IsLetter(c) ==
    c \in {"a", "b", "c", "d", "e", "f", "g", "h", "i", "j", "k", "l", "m",
           "n", "o", "p", "q", "r", "s", "t", "u", "v", "w", "x", "y", "z"}

\* \w on a normalized question
IsWordChar(c) == IsLetter(c) \/ IsDigit(c) \/ c = "_"

WordAt(s, i) == i >= 1 /\ i <= Len(s) /\ IsWordChar(s[i])

\* \b between the characters i - 1 and i
WordBoundary(s, i) == WordAt(s, i - 1) # WordAt(s, i)

RECURSIVE LettersEnd(_, _)
LettersEnd(s, i) == IF i <= Len(s) /\ IsLetter(s[i]) THEN LettersEnd(s, i + 1) ELSE i

\* \b(top|bottom) at position i: the position after it, 0 when it is not there
TopBottomEnd(s, i) ==
    IF ~WordBoundary(s, i) THEN 0
    ELSE IF At(s, i, Txt["top"]) THEN i + 3
    ELSE IF At(s, i, Txt["bottom"]) THEN i + 6
    ELSE 0

\* \b(top|bottom)\s+(\d+)\b matches at position i
TopDigitsAt(s, i) ==
    \E e \in {TopBottomEnd(s, i)} : e # 0 /\
    \E d \in {SpacesEnd(s, e)} : d > e /\
    \E d2 \in {DigitsEnd(s, d)} : d2 > d /\ WordBoundary(s, d2)

\* \b(top|bottom)\s+([a-z]+)\b matches at position i
TopWordAt(s, i) ==
    \E e \in {TopBottomEnd(s, i)} : e # 0 /\
    \E d \in {SpacesEnd(s, e)} : d > e /\
    \E a \in {LettersEnd(s, d)} : a > d /\ WordBoundary(s, a)

\* the order the first group of a match at position i stands for
top_bottom_order(s, i) == IF At(s, i, Txt["top"]) THEN "desc" ELSE "asc"

\* int(group 2) of the first pattern matched at position i
top_digits(s, i) ==
    ParseInt(SubSeq(s, SpacesEnd(s, TopBottomEnd(s, i)),
                    DigitsEnd(s, SpacesEnd(s, TopBottomEnd(s, i))) - 1))

\* group 2 of the second pattern matched at position i
top_word(s, i) ==
    SubSeq(s, SpacesEnd(s, TopBottomEnd(s, i)),
           LettersEnd(s, SpacesEnd(s, TopBottomEnd(s, i))) - 1)

\* the entry of SPANISH_NUMBER_WORDS for the word, 0 when it is not a key
number_word(word) ==
    FirstOf({n \in 1..Len(SPANISH_NUMBER_WORDS) : Txt[SPANISH_NUMBER_WORDS[n][1]] = word})

Superlatives == <<"mejores", "peores", "mayores", "menores">>

\* (mejores|peores|mayores|menores)\b at position w: which one, 0 when none
SuperlativeAt(s, w) ==
    FirstOf({n \in 1..Len(Superlatives) :
                /\ At(s, w, Txt[Superlatives[n]])
                /\ WordBoundary(s, w + Len(Txt[Superlatives[n]]))})

\* \b(las|los) at position i: the position after it, 0 when it is not there
LasLosEnd(s, i) ==
    IF WordBoundary(s, i) /\ (At(s, i, Txt["las"]) \/ At(s, i, Txt["los"])) THEN i + 3 ELSE 0

\* \b(las|los)\s+(\d+)\s+(mejores|peores|mayores|menores)\b matches at position i
SuperlativeCountAt(s, i) ==
    \E e \in {LasLosEnd(s, i)} : e # 0 /\
    \E d \in {SpacesEnd(s, e)} : d > e /\
    \E d2 \in {DigitsEnd(s, d)} : d2 > d /\
    \E w \in {SpacesEnd(s, d2)} : w > d2 /\ SuperlativeAt(s, w) # 0

\* int(group 2) of the third pattern matched at position i
superlative_count(s, i) ==
    ParseInt(SubSeq(s, SpacesEnd(s, LasLosEnd(s, i)),
                    DigitsEnd(s, SpacesEnd(s, LasLosEnd(s, i))) - 1))

\* "mejor" in group 3 or "mayor" in group 3, for the third pattern matched at i
superlative_order(s, i) ==
    IF Superlatives[SuperlativeAt(s, SpacesEnd(s, DigitsEnd(s, SpacesEnd(s, LasLosEnd(s, i)))))]
           \in {"mejores", "mayores"}
    THEN "desc" ELSE "asc"

DESC_TRIGGERS == <<"mayor", "maximo", "mas alto", "top", "superior", "mejor", "highest", "max">>
ASC_TRIGGERS ==
    <<"menor", "minimo", "mas bajo", "peor", "peores", "lowest", "min", "inferior", "bottom">>
MONTHS ==
    <<"enero", "febrero", "marzo", "abril", "mayo", "junio", "julio", "agosto",
      "septiembre", "octubre", "noviembre", "diciembre">>

\* " mayo " in f" {t} "
SaysMayo(t) == Contains(<<" ">> \o t \o <<" ">>, Txt[" mayo "])

\* parser._is_month_ctx
is_month_ctx(q) == SaysMayo(normalize(q)) /\ AnyIn(MONTHS, normalize(q))

\* the words that settle a question with triggers of both directions
WorstWords == <<"peor", "peores", "menor", "menores", "mas bajo", "bottom">>

\* the order the trigger words give, desc standing for the flag after the month test
order_of_triggers(qn, desc, asc) ==
    IF asc /\ desc THEN (IF AnyIn(WorstWords, qn) THEN "asc" ELSE "desc")
    ELSE IF desc THEN "desc"
    ELSE IF asc THEN "asc"
    ELSE "desc"

\* the result for the leftmost matches m, m2, m3 of the three patterns (0: no match)
order_and_n_at(q, qn, m, m2, m3) ==
    IF m # 0
    THEN [order |-> top_bottom_order(qn, m), n |-> top_digits(qn, m)]
    ELSE IF m2 # 0 /\ number_word(top_word(qn, m2)) # 0
    THEN [order |-> top_bottom_order(qn, m2),
          n     |-> SPANISH_NUMBER_WORDS[number_word(top_word(qn, m2))][2]]
    ELSE IF m3 # 0
    THEN [order |-> superlative_order(qn, m3), n |-> superlative_count(qn, m3)]
    ELSE [order |-> order_of_triggers(qn,
                       AnyIn(DESC_TRIGGERS, qn) \/ (~is_month_ctx(q) /\ SaysMayo(qn)),
                       AnyIn(ASC_TRIGGERS, qn)),
          n     |-> NoNumber]

order_and_n_in(q, qn) ==
    order_and_n_at(q, qn,
                   FirstOf({i \in 1..Len(qn) : TopDigitsAt(qn, i)}),
                   FirstOf({i \in 1..Len(qn) : TopWordAt(qn, i)}),
                   FirstOf({i \in 1..Len(qn) : SuperlativeCountAt(qn, i)}))

\* parser.decide_order_and_n: the order and the n read from the question (NoNumber: None)
decide_order_and_n(q) == order_and_n_in(q, normalize(q))

(***************************************************************************)
(* parser.to_spec and parser.to_spec_llm                                   *)
(***************************************************************************)
\* a or b, for two Optional[str]
Or(a, b) == IF Truthy(a) THEN a ELSE b

\* "needle" in normalize(question)
Says(question, needle) == Contains(normalize(question), Txt[needle])

\* step 5: group_by by task
group_by_for(task, segment_mentioned) ==
    CASE task = "aggregate" -> <<"country">>
      [] task = "compare"   -> IF segment_mentioned THEN <<"zone_type">> ELSE <<"zone">>
      [] task = "trend"     -> <<"week">>
      [] OTHER              -> <<"zone">>

visualization_for(task) ==
    IF task = "trend" THEN "line"
    ELSE IF task \in {"compare", "aggregate"} THEN "bar"
    ELSE "table"

\* step 4: L0W for this week, the default of eight weeks, and the window of
\* n_last weeks when the question gives 1 to 12 of them
time_range_of(this_week, n_last) ==
    IF n_last # NoNumber /\ n_last # 0 /\ 1 <= n_last /\ n_last <= 12
    THEN <<"L">> \o Digits(n_last) \o <<"W", "-", "L", "0", "W">>
    ELSE IF this_week THEN <<"L", "0", "W">>
    ELSE <<"L", "8", "W", "-", "L", "0", "W">>

time_range_for(question) ==
    time_range_of(ask_is_this_week(question), ask_last_n_weeks(question))

\* step 1: the metric of the catalog, then the legacy synonyms, then Orders
data_metric_for(cat_match, question) ==
    IF cat_match # None THEN cat_match
    ELSE normalize_canonical_metric_for_data(Or(match_metric(question), "Orders"))

\* the slip of letting the country fall back to the remembered one, as the
\* city and the zone do
country_for_sticky(loc_country, detected_country, memory) ==
    Or(Or(loc_country, detected_country), DictGet(memory, "country", None))

\* step 2: the country comes from the question alone
country_for(loc_country, detected_country, memory) ==
    Or(loc_country, detected_country)

\* steps 6 and 7: AnalyticsSpec(...), with the aggregator of the catalog when
\* the question asks for none
build_spec(question, memory, env, task, data_metric, mprops, filters) ==
    [task          |-> task,
     metrics       |-> <<data_metric>>,
     filters       |-> filters,
     group_by      |-> group_by_for(task, mentions_zone_segments(question)),
     time          |-> [range |-> time_range_for(question),
                        compare_to |-> IF Says(question, "semana pasada")
                                       THEN "prev_week" ELSE "none"],
     ops           |-> [agg |-> IF Says(question, "promedio") THEN "mean"
                                ELSE mprops.agg_default],
     visualization |-> visualization_for(task),
     context       |-> [explicit_country        |-> Truthy(filters.country),
                        metric_label            |-> label_for_metric(data_metric, env),
                        metric_value_type       |-> mprops.value_type,
                        metric_range_hint       |-> mprops.range_hint,
                        metric_higher_is_better |-> mprops.higher_is_better]
                       @@ memory]

\* step 2: the filters, from the question and then from the memory
filters_for(question, memory, env, loc) ==
    [country   |-> country_for(loc[1], extract_country(question, env), memory),
     city      |-> Or(loc[2], DictGet(memory, "city", None)),
     zone      |-> Or(loc[3], DictGet(memory, "zone", None)),
     zone_type |-> Or(extract_zone_type(question), DictGet(memory, "zone_type", None))]

spec_of_metric(question, memory, env, data_metric) ==
    build_spec(question, memory, env, detect_task(question), data_metric,
               props_for_metric(data_metric, env),
               filters_for(question, memory, env, extract_location(question, env)))

\* steps 1 to 7: the spec before the business overrides
base_spec(question, memory, env) ==
    spec_of_metric(question, memory, env,
                   data_metric_for(match_metric_from_catalog(question, env), question))

\* override: a multivariable spec is about Lead Penetration and Perfect Orders
force_multivariable(spec) ==
    IF spec.task = "multivariable"
    THEN [spec EXCEPT !.metrics = <<"Lead Penetration", "Perfect Orders">>]
    ELSE spec

\* any(w in qn for w in ["crec", "crecim", "aument", "sub"])
SaysGrowth(question) == AnyIn(<<"crec", "crecim", "aument", "sub">>, normalize(question))

\* Orders over five weeks, unless the question gives a number of weeks
force_orders(spec, question) ==
    IF ask_last_n_weeks(question) \in {NoNumber, 0}
    THEN [spec EXCEPT !.metrics = <<"Orders">>,
                      !.time.range = <<"L", "5", "W", "-", "L", "0", "W">>]
    ELSE [spec EXCEPT !.metrics = <<"Orders">>]

\* the slip of forcing Orders only when an order word comes with the growth word
force_orders_growth_orders_only(spec, question) ==
    IF /\ \/ Says(question, "orden") \/ Says(question, "orders") \/ Says(question, "pedidos")
       /\ SaysGrowth(question)
    THEN force_orders(spec, question)
    ELSE spec

\* override of to_spec: growth of orders
force_orders_growth(spec, question) ==
    IF /\ \/ spec.task = "inference"
          \/ Says(question, "orden") \/ Says(question, "orders") \/ Says(question, "pedidos")
       /\ SaysGrowth(question)
    THEN force_orders(spec, question)
    ELSE spec

\* the slip of dropping the final clean-up of the country filter
clear_grouped_country_skipped(spec) == spec

\* a spec grouped by country carries no country filter
clear_grouped_country(spec) ==
    IF \E i \in 1..Len(spec.group_by) : spec.group_by[i] = "country"
    THEN [spec EXCEPT !.filters.country = None]
    ELSE spec

\* parser.to_spec
to_spec(question, memory, env) ==
    clear_grouped_country(
        force_orders_growth(
            force_multivariable(base_spec(question, memory, env)),
            question))

\* the reply of the language model: no API key, a failure (import, network,
\* JSON or validation error), or a spec that validates
NoKey    == [kind |-> "no key"]
LLMError == [kind |-> "error"]

\* override of to_spec_llm: growth of orders
force_orders_growth_llm(spec, question) ==
    IF /\ \/ spec.task = "inference"
          \/ Says(question, "orden") \/ Says(question, "orders")
       /\ SaysGrowth(question)
    THEN force_orders(spec, question)
    ELSE spec

\* a trend is grouped by week
week_for_trend(spec) ==
    IF spec.task = "trend" /\ ~\E i \in 1..Len(spec.group_by) : spec.group_by[i] = "week"
    THEN [spec EXCEPT !.group_by = <<"week">>]
    ELSE spec

\* "Non-Wealthy" is written "Non Wealthy"
canonical_zone_type(spec) ==
    IF spec.filters.zone_type = "Non-Wealthy"
    THEN [spec EXCEPT !.filters.zone_type = "Non Wealthy"]
    ELSE spec

\* the aggregator of the catalog when the reply has none
default_agg(spec, env) ==
    IF spec.ops.agg = None
    THEN [spec EXCEPT !.ops.agg =
             props_for_metric(IF Len(spec.metrics) > 0 THEN spec.metrics[1] ELSE "Orders",
                              env).agg_default]
    ELSE spec

\* the context of to_spec_llm: the memory and explicit_country
llm_context(spec, memory) ==
    [spec EXCEPT !.context = [explicit_country |-> Truthy(spec.filters.country)] @@ memory]

\* the post-processing of a validated reply
post_process(spec, question, memory, env) ==
    clear_grouped_country(
        llm_context(
            default_agg(
                canonical_zone_type(
                    week_for_trend(
                        force_orders_growth_llm(force_multivariable(spec), question))),
                env),
            memory))

\* parser.to_spec_llm
to_spec_llm(question, memory, env, reply) ==
    IF reply.kind # "spec" THEN to_spec(question, memory, env)
    ELSE post_process(reply.spec, question, memory, env)

\* the text of a question written as a sequence of words and phrases
TextOf(words) == Join([i \in 1..Len(words) |-> Txt[words[i]]])

(***************************************************************************)
(* insights.engine: numbers                                                *)
(***************************************************************************)
\* A float is the exact fraction <<numerator, denominator>> with a positive
\* denominator; warehouse values are whole tenths.  None and NaN are the
\* two fractions with denominator 0.
NoPct == <<0, 0>>
NaN   == <<1, 0>>

\* a NULL of the warehouse, NaN once it is in a data frame
Null == 1000000

Abs(x) == IF x < 0 THEN -x ELSE x

IsNumber(p) == p[2] > 0

\* abs(p) >= n / d for a fraction p and naturals n, d; False for NaN
AbsAtLeast(p, n, d) == IsNumber(p) /\ Abs(p[1]) * d >= n * p[2]

\* a <= b for two fractions
Leq(a, b) == a[1] * b[2] <= b[1] * a[2]

\* a = n / d for a fraction a
Equals(a, n, d) == IsNumber(a) /\ a[1] * d = n * a[2]

\* config.TOP_N
TOP_N == 10

\* seq[:n]
Take(seq, n) == SubSeq(seq, 1, Min(n, Len(seq)))

\* config.METRIC_POLARITY
METRIC_POLARITY ==
    [m \in {"Lead Penetration", "Perfect Orders", "Gross Profit UE", "Orders"} |-> TRUE]

\* the slip of dividing by prev instead of abs(prev)
pct_change_by_prev(cur, prev) ==
    IF prev = Null \/ prev = 0 THEN NoPct
    ELSE IF cur = Null THEN NaN
    ELSE IF prev < 0 THEN <<-(cur - prev), -prev>>
    ELSE <<cur - prev, prev>>

\* engine._pct_change
pct_change(cur, prev) ==
    IF prev = Null \/ prev = 0 THEN NoPct
    ELSE IF cur = Null THEN NaN
    ELSE <<cur - prev, Abs(prev)>>

\* engine._severity_from_pct: min(1.0, abs(p) / 0.20)
severity_from_pct(p) ==
    IF 5 * Abs(p[1]) >= p[2] THEN <<1, 1>> ELSE <<5 * Abs(p[1]), p[2]>>

\* sorted(out, key=lambda x: x.severity, reverse=True): the sort is stable
RECURSIVE InsertBySeverity(_, _)
InsertBySeverity(sorted, x) ==
    IF sorted = <<>> THEN <<x>>
    ELSE IF Leq(x.severity, sorted[Len(sorted)].severity) THEN Append(sorted, x)
    ELSE Append(InsertBySeverity(SubSeq(sorted, 1, Len(sorted) - 1), x), sorted[Len(sorted)])

RECURSIVE SortedBySeverity(_)
SortedBySeverity(out) ==
    IF out = <<>> THEN <<>>
    ELSE InsertBySeverity(SortedBySeverity(SubSeq(out, 1, Len(out) - 1)), out[Len(out)])

(***************************************************************************)
(* insights.config.RECO_TEMPLATES and the keys the detectors look up       *)
(***************************************************************************)
\* config.RECO_TEMPLATES: the key of a template and the words it opens with
RECO_TEMPLATES ==
    (Txt["Perfect Orders_low"] :> "Revisar fulfillment y control de calidad")
    @@ (Txt["Lead Penetration_low"] :> "Refuerzo de adquisicion/activacion")
    @@ (Txt["Gross Profit UE_low"] :> "Optimizar pricing/descuentos")
    @@ (Txt["Orders_growth_high_PO_low"] :> "Priorizar estabilizacion operativa")
    @@ (Txt["Benchmark_negative"] :> "Comparar playbooks con zonas pares")
    @@ (Txt["Correlation_LP_PO"] :> "Iniciativas conjuntas para elevar LP y PO")

\* str.replace(' ', '_')
underscored(text) == [i \in 1..Len(text) |-> IF text[i] = " " THEN "_" ELSE text[i]]

\* f"{metric.replace(' ','_')}_low"
low_key(metric) == underscored(Txt[metric]) \o Txt["_low"]

\* reco_key of detect_anomalies
reco_key(metric, concerning) ==
    IF concerning THEN low_key(metric) ELSE Txt["Benchmark_negative"]

\* RECO_TEMPLATES.get(reco_key, "Profundizar causa raiz y plan de accion.")
anomaly_recommendation(metric, concerning) ==
    DictGet(RECO_TEMPLATES, reco_key(metric, concerning), "Profundizar causa raiz y plan de accion")

(***************************************************************************)
(* insights.engine.detect_anomalies                                        *)
(***************************************************************************)
\* the Insight of a group whose change is pct
anomaly_of(row, pct) ==
    [category   |-> "anomaly",
     zone       |-> row.zone,
     metric     |-> row.metric,
     direction  |-> IF pct[1] > 0 THEN "mejora" ELSE "deterioro",
     concerning |-> IF DictGet(METRIC_POLARITY, row.metric, TRUE) THEN pct[1] < 0 ELSE pct[1] > 0,
     severity   |-> severity_from_pct(pct),
     recommendation |->
         anomaly_recommendation(row.metric,
             IF DictGet(METRIC_POLARITY, row.metric, TRUE) THEN pct[1] < 0 ELSE pct[1] > 0),
     current    |-> row.cur,
     prev       |-> row.prev,
     pct_change |-> pct]

\* the body of the loop for one group: the insights it appends to out
anomalies_of_pct(row, pct) ==
    IF pct = NoPct THEN <<>>
    ELSE IF AbsAtLeast(pct, 1, 10) THEN <<anomaly_of(row, pct)>>
    ELSE <<>>

anomalies_of(row) == anomalies_of_pct(row, pct_change(row.cur, row.prev))

\* out after the loop over the groups, in the order of their keys
RECURSIVE anomalies_out(_)
anomalies_out(groups) ==
    IF groups = <<>> THEN <<>>
    ELSE anomalies_out(SubSeq(groups, 1, Len(groups) - 1)) \o anomalies_of(groups[Len(groups)])

\* engine.detect_anomalies on the rows _fetch_current_prev returned, one per group
detect_anomalies(groups) == SortedBySeverity(anomalies_out(groups))

(***************************************************************************)
(* insights.engine.detect_correlations, for the rows of one zone           *)
(***************************************************************************)
\* config.MIN_POINTS_TIME
MIN_POINTS_TIME == 6

\* WEEK_OFFSET BETWEEN 0 AND 8
Weeks == 0..8

\* SELECT DISTINCT METRIC, in the order the warehouse returns them
CorrMetrics == <<"Lead Penetration", "Perfect Orders", "Orders">>

\* the value of the metric in the week, Null without a row: a cell of wide
Cell(data, m, w) == data[m][w + 1]

\* the WEEK_OFFSET groups of the query: the weeks with a row of any metric
WideWeeks(data) ==
    {w \in Weeks : \E i \in 1..Len(CorrMetrics) : Cell(data, CorrMetrics[i], w) # Null}

\* wide[a].isna().all()
AllNull(data, a) == \A w \in Weeks : Cell(data, a, w) = Null

\* nan_policy='omit': the weeks in which both columns hold a value
Complete(data, a, b) ==
    {w \in Weeks : Cell(data, a, w) # Null /\ Cell(data, b, w) # Null}

\* twice the average rank of week w among the weeks pts of column a, 0 outside pts
Rank2(data, a, pts, w) ==
    IF w \notin pts THEN 0
    ELSE 2 * Cardinality({v \in pts : Cell(data, a, v) < Cell(data, a, w)})
         + Cardinality({v \in pts : Cell(data, a, v) = Cell(data, a, w)}) + 1

\* the sum over the weeks 0..w of the products of the ranks of a and b
RECURSIVE SumRanks(_, _, _, _, _)
SumRanks(data, a, b, pts, w) ==
    IF w < 0 THEN 0
    ELSE Rank2(data, a, pts, w) * (IF b = "" THEN 1 ELSE Rank2(data, b, pts, w))
         + SumRanks(data, a, b, pts, w - 1)

\* n * sum(ra * rb) - sum(ra) * sum(rb): n squared times the covariance of the ranks
Covariance(data, a, b, pts) ==
    Cardinality(pts) * SumRanks(data, a, b, pts, 8)
        - SumRanks(data, a, "", pts, 8) * SumRanks(data, b, "", pts, 8)

\* spearmanr returns a number: two weeks or more, and neither column constant
HasRho(data, a, b) ==
    /\ Cardinality(Complete(data, a, b)) >= 2
    /\ Covariance(data, a, a, Complete(data, a, b)) > 0
    /\ Covariance(data, b, b, Complete(data, a, b)) > 0

RECURSIVE GCD(_, _)
GCD(a, b) == IF b = 0 THEN a ELSE GCD(b, a % b)

\* the fraction n / d in lowest terms, d being positive
Fraction(n, d) == <<n \div GCD(n, d), d \div GCD(n, d)>>

\* rho * rho as a fraction
RhoSquared(data, a, b) ==
    Fraction(Covariance(data, a, b, Complete(data, a, b))
                * Covariance(data, a, b, Complete(data, a, b)),
             Covariance(data, a, a, Complete(data, a, b))
                * Covariance(data, b, b, Complete(data, a, b)))

\* the Insight of the pair of columns a, b; the severity grows with rho * rho,
\* which stands for it in the sort
correlation_of(data, a, b) ==
    [category |-> "correlation",
     zone     |-> "Chapinero",
     metrics  |-> <<a, b>>,
     positive |-> Covariance(data, a, b, Complete(data, a, b)) > 0,
     severity |-> RhoSquared(data, a, b)]

\* the body of the loop over the pairs of columns: abs(rho) >= CORR_MIN_ABS = 0.5
correlations_of_pair(data, a, b) ==
    IF AllNull(data, a) \/ AllNull(data, b) THEN <<>>
    ELSE IF ~HasRho(data, a, b) THEN <<>>
    ELSE IF AbsAtLeast(RhoSquared(data, a, b), 1, 4) THEN <<correlation_of(data, a, b)>>
    ELSE <<>>

\* the body of the loop over the zones
correlations_of_zone(data) ==
    IF Cardinality(WideWeeks(data)) < MIN_POINTS_TIME THEN <<>>
    ELSE correlations_of_pair(data, CorrMetrics[1], CorrMetrics[2])
         \o correlations_of_pair(data, CorrMetrics[1], CorrMetrics[3])
         \o correlations_of_pair(data, CorrMetrics[2], CorrMetrics[3])

\* engine.detect_correlations on a warehouse of one zone
detect_correlations(data) == Take(SortedBySeverity(correlations_of_zone(data)), TOP_N)

(***************************************************************************)
(* insights.engine.generate_insights                                       *)
(***************************************************************************)
\* the detectors, in the order generate_insights runs them
Categories == <<"anomaly", "trend", "benchmark", "correlation", "opportunity">>

\* the key of the report that holds the list of the category
ReportKey ==
    [c \in {"anomaly", "trend", "benchmark", "correlation", "opportunity"} |->
        CASE c = "anomaly"     -> "anomalies"
          [] c = "trend"       -> "trends"
          [] c = "benchmark"   -> "benchmarking"
          [] c = "correlation" -> "correlations"
          [] c = "opportunity" -> "opportunities"]

\* the slip of cutting the list a detector collected before sorting it
returned_cut_first(category, out) ==
    SortedBySeverity(Take(out, TOP_N))

\* what a detector returns once its loop has collected out: the list sorted
\* by severity, cut by the detectors that cut it themselves
returned(category, out) ==
    IF category = "benchmark" THEN Take(SortedBySeverity(out), TOP_N * 2)
    ELSE IF category = "correlation" THEN Take(SortedBySeverity(out), TOP_N)
    ELSE SortedBySeverity(out)

\* the slip of keeping what a failing detector had collected
safe_keeping_partial(category, run) == returned(category, run.out)

\* generate_insights._safe: the detector's list, [] when it raises
safe(category, run) == IF run.raises THEN <<>> ELSE returned(category, run.out)

\* the report built from the five lists
report_of(anomalies, trends, bench, corrs, opps) ==
    [executive_summary |->
        Take(SortedBySeverity(anomalies \o trends \o bench \o corrs \o opps), 5),
     anomalies     |-> anomalies,
     trends        |-> trends,
     benchmarking  |-> bench,
     correlations  |-> corrs,
     opportunities |-> opps,
     meta |-> [counts |->
        [executive     |-> Min(5, Len(anomalies) + Len(trends) + Len(bench)
                                    + Len(corrs) + Len(opps)),
         anomalies     |-> Len(anomalies),
         trends        |-> Len(trends),
         benchmarking  |-> Len(bench),
         correlations  |-> Len(corrs),
         opportunities |-> Len(opps)]]]

\* engine.generate_insights, runs[c] being what the detector c does when called
generate_insights(runs) ==
    report_of(Take(safe("anomaly", runs["anomaly"]), TOP_N),
              Take(safe("trend", runs["trend"]), TOP_N),
              Take(safe("benchmark", runs["benchmark"]), TOP_N),
              Take(safe("correlation", runs["correlation"]), TOP_N),
              Take(safe("opportunity", runs["opportunity"]), TOP_N))

(***************************************************************************)
(* executor.execute                                                        *)
(***************************************************************************)
\* the tasks execute has a branch for, in the order of the branches
HandledTasks ==
    {"filter", "compare", "trend", "aggregate", "multivariable", "inference", "contextual"}

\* the suggestions the branch of the task puts in the payload
SuggestionsOf ==
    [t \in HandledTasks |->
        CASE t = "filter"        -> <<"tendencia", "semana pasada", "CSV">>
          [] t = "compare"       -> <<"city", "segmento">>
          [] t = "trend"         -> <<"pendiente", "consecutivas">>
          [] t = "aggregate"     -> <<"evolucion", "top/bottom 5">>
          [] t = "multivariable" -> <<"peer group", "tendencia">>
          [] t = "inference"     -> <<"drivers", "playbook">>
          [] t = "contextual"    -> <<"priorizar", "recomendaciones">>]

\* out after out.update(title=..., data=..., suggestions=...) in the branch of the task
handled(spec, data) ==
    [visualization |-> spec.visualization,
     suggestions   |-> SuggestionsOf[spec.task],
     title         |-> <<spec.task, spec.metrics[1]>>,
     data          |-> data]

\* the same with out["debug_sql"] set
handled_debug(spec, data) ==
    [visualization |-> spec.visualization,
     suggestions   |-> SuggestionsOf[spec.task],
     title         |-> <<spec.task, spec.metrics[1]>>,
     data          |-> data,
     debug_sql     |-> spec.task]

\* A predicate of a query is [keyword, column, value]: the keyword that
\* introduces it, the column it tests and the value it tests it against.
predicate(keyword, column, value) == [keyword |-> keyword, column |-> column, value |-> value]

\* f["zone_type"].upper().replace("-", " ").strip()
zone_type_value(zt) ==
    Strip([i \in 1..Len(Txt[zt]) |-> IF Upper(Txt[zt])[i] = "-" THEN " " ELSE Upper(Txt[zt])[i]])

\* executor._filters_where: one AND fragment per filter that is set
filters_where(f) ==
    (IF Truthy(f.country) THEN <<predicate("AND", "UPPER(COUNTRY)", Upper(Txt[f.country]))>> ELSE <<>>)
    \o (IF Truthy(f.city) THEN <<predicate("AND", "UPPER(CITY)", Upper(Txt[f.city]))>> ELSE <<>>)
    \o (IF Truthy(f.zone) THEN <<predicate("AND", "UPPER(ZONE)", Upper(Txt[f.zone]))>> ELSE <<>>)
    \o (IF Truthy(f.zone_type)
        THEN <<predicate("AND", "REPLACE(UPPER(ZONE_TYPE),'-',' ')", zone_type_value(f.zone_type))>>
        ELSE <<>>)

\* executor._metric_where
metric_where(metrics) == predicate("AND", "LOWER(METRIC) IN", metrics)

\* the metrics of the WHERE clause: a multivariable spec needs both
metrics_for_where(spec) ==
    IF spec.task = "multivariable" THEN <<"Lead Penetration", "Perfect Orders">> ELSE spec.metrics

\* where: "WHERE 1=1 " + filters + metrics + non-null values + weeks
where(spec) ==
    <<predicate("WHERE", "1", <<"1">>)>>
    \o filters_where(spec.filters)
    \o <<metric_where(metrics_for_where(spec)),
         predicate("AND", "VALUE IS NOT", <<"NULL">>),
         predicate("AND", "WEEK_OFFSET BETWEEN", offset_bounds(spec.time.range))>>

\* the selection of the cur (week 0) and prev (week 1) tables of the
\* contextual task, as it follows FROM zone_weekly_metrics
contextual_selection(spec, week) ==
    filters_where(spec.filters)
    \o <<predicate("AND", "METRIC IN", <<"Lead Penetration", "Perfect Orders", "Gross Profit UE">>),
         predicate("AND", "VALUE IS NOT", <<"NULL">>),
         predicate("AND", "WEEK_OFFSET =", <<week>>)>>

\* the selection of the base table of the inference task
inference_selection(spec) ==
    <<predicate("WHERE", "1", <<"1">>)>>
    \o filters_where(spec.filters)
    \o <<predicate("AND", "WEEK_OFFSET BETWEEN",
                   offset_bounds(IF spec.time.range = NoText \/ spec.time.range = <<>>
                                 THEN Txt["L5W-L0W"] ELSE spec.time.range))>>

\* the selections of the query the branch of the task builds
selections_of(spec) ==
    IF spec.task = "contextual" THEN <<contextual_selection(spec, 0), contextual_selection(spec, 1)>>
    ELSE IF spec.task = "inference" THEN <<inference_selection(spec)>>
    ELSE IF spec.task = "multivariable"
    THEN <<where(spec) \o <<predicate("AND", "METRIC IN", <<"Lead Penetration", "Perfect Orders">>)>> >>
    ELSE <<where(spec)>>

\* the SQL grammar: after FROM table the predicates, if any, are introduced
\* by WHERE and joined by AND
selection_parses(selection) ==
    \A i \in 1..Len(selection) : selection[i].keyword = (IF i = 1 THEN "WHERE" ELSE "AND")

sql_parses(selections) == \A i \in 1..Len(selections) : selection_parses(selections[i])

\* what con.execute gives when the query fails on the warehouse, as when a
\* table or a view of the query is missing
QueryError == <<[raised |-> "duckdb.CatalogException"]>>

\* the branch of a handled task: con.execute(sql) raises on a query that
\* does not parse or that fails, and the payload is returned otherwise
run_branch(spec, dbg, data) ==
    IF ~sql_parses(selections_of(spec)) THEN [raised |-> "duckdb.ParserException"]
    ELSE IF data = QueryError THEN QueryError[1]
    ELSE IF dbg THEN handled_debug(spec, data)
    ELSE handled(spec, data)

\* executor.execute: the payload returned or the exception raised; connects
\* tells whether duckdb.connect finds the warehouse, data is what the query
\* of the branch returns
execute(spec, connects, dbg, data) ==
    IF ~connects THEN [raised |-> "duckdb.IOException"]
    ELSE IF spec.task \in HandledTasks THEN run_branch(spec, dbg, data)
    ELSE [error |-> <<"Tarea no implementada: ", spec.task>>]

\* A connection is [by, state]: the function that opened it and whether
\* close() was called on it ("closed"), or it was left to the interpreter,
\* which releases it when it finalizes the object ("open", then "finalized").

\* the connection execute opened, if any, as the call leaves it: con.close()
\* runs before each return and is skipped when con.execute raises
connection_of_execute(result) ==
    IF "raised" \notin DOMAIN result THEN <<[by |-> "execute", state |-> "closed"]>>
    ELSE IF result.raised = "duckdb.IOException" THEN <<>>
    ELSE <<[by |-> "execute", state |-> "open"]>>

\* the connection generate_insights got from _open_con: no statement of
\* generate_insights closes it, so it lasts until the interpreter finalizes
\* the object, at the return when released, at a later collection otherwise
connection_of_generate_insights(released) ==
    <<[by |-> "generate_insights", state |-> IF released THEN "finalized" ELSE "open"]>>

(***************************************************************************)
(* executor.execute: the inference branch                                  *)
(***************************************************************************)
\* A zone of zone_weekly_orders is [COUNTRY, CITY, ZONE, ORDERS], ORDERS[w]
\* being its orders at WEEK_OFFSET w and Null where it has no row.

\* _filters_where on country, city and zone: UPPER(column) = UPPER('value')
same_upper(value, wanted) == wanted = None \/ Upper(Txt[value]) = Upper(Txt[wanted])

passes_filters(row, f) ==
    /\ same_upper(row.COUNTRY, f.country)
    /\ same_upper(row.CITY, f.city)
    /\ same_upper(row.ZONE, f.zone)

\* base: the week offsets of the zone with WEEK_OFFSET BETWEEN lo AND hi
base_weeks(zone, lo, hi) == {w \in DOMAIN zone.ORDERS : lo <= w /\ w <= hi /\ zone.ORDERS[w] # Null}

\* with_x: x = ROW_NUMBER() OVER (PARTITION BY zone ORDER BY WEEK_OFFSET) - 1
x_of(weeks, w) == Cardinality({v \in weeks : v < w})

RECURSIVE SumOver(_, _)
SumOver(weeks, f) ==
    IF weeks = {} THEN 0
    ELSE f[CHOOSE w \in weeks : TRUE] + SumOver(weeks \ {CHOOSE w \in weeks : TRUE}, f)

\* a NULL slope
NoSlope == <<0, 0>>

\* covar_samp(ORDERS, x) / NULLIF(var_samp(x), 0): both have the divisor
\* n - 1, and both are NULL for a single row
slope_of(n, sx, sy, sxy, sxx) ==
    IF n < 2 \/ n * sxx = sx * sx THEN NoSlope
    ELSE Fraction(n * sxy - sx * sy, n * sxx - sx * sx)

\* stats: the slope of one zone over its weeks
slope_over(zone, weeks) ==
    slope_of(Cardinality(weeks),
             SumOver(weeks, [w \in weeks |-> x_of(weeks, w)]),
             SumOver(weeks, [w \in weeks |-> zone.ORDERS[w]]),
             SumOver(weeks, [w \in weeks |-> x_of(weeks, w) * zone.ORDERS[w]]),
             SumOver(weeks, [w \in weeks |-> x_of(weeks, w) * x_of(weeks, w)]))

stats_row(zone, lo, hi) ==
    [COUNTRY |-> zone.COUNTRY, CITY |-> zone.CITY, ZONE |-> zone.ZONE,
     slope |-> slope_over(zone, base_weeks(zone, lo, hi))]

\* the zones that have a row in base
in_base(panel, f, lo, hi) ==
    {i \in 1..Len(panel) : passes_filters(panel[i], f) /\ base_weeks(panel[i], lo, hi) # {}}

\* ORDER BY slope DESC: NULL slopes come last, equal slopes in any order
slope_desc(a, b) ==
    \/ ~IsNumber(b.slope)
    \/ IsNumber(a.slope) /\ Leq(b.slope, a.slope)

orderings(stats) ==
    {p \in [1..Cardinality(stats) -> stats] :
        /\ \A i, j \in DOMAIN p : i # j => p[i] # p[j]
        /\ \A i, j \in DOMAIN p : i < j => slope_desc(p[i], p[j])}

\* the rank of the zones by slope, one sequence per order the query can give
slope_rankings(panel, f, lo, hi) ==
    orderings({stats_row(panel[i], lo, hi) : i \in in_base(panel, f, lo, hi)})

\* LIMIT {spec.ops.top_k or 10}
limit_of(spec) == IF spec.ops.top_k \in {NoNumber, 0} THEN 10 ELSE spec.ops.top_k

\* _offset_bounds(spec.time.range or "L5W-L0W")
slope_bounds(spec) ==
    offset_bounds(IF spec.time.range = NoText \/ spec.time.range = <<>>
                  THEN Txt["L5W-L0W"] ELSE spec.time.range)

\* the rows of the inference task, for each order of equal slopes; the three
\* correlations attached to each row change neither the rows nor their order
inference_rows(spec, panel) ==
    {Take(ranking, limit_of(spec)) :
        ranking \in slope_rankings(panel, spec.filters, slope_bounds(spec)[1], slope_bounds(spec)[2])}

(***************************************************************************)
(* insights.engine.detect_opportunities                                    *)
(***************************************************************************)
\* A zone of the panel is [COUNTRY, CITY, ZONE, ORDERS, PO]: ORDERS[w] its
\* orders at WEEK_OFFSET w (Null where it has no row) and PO its Perfect
\* Orders at WEEK_OFFSET 0 in tenths (Null where it has no value).

\* WHERE WEEK_OFFSET BETWEEN 0 AND 5, sorted by WEEK_OFFSET
opportunity_weeks(zone) == base_weeks(zone, 0, 5)

\* x = np.arange(len(g)); slope of linregress(x, g["ORDERS"])
orders_slope(zone) == slope_over(zone, opportunity_weeks(zone))

\* the Perfect Orders values of the country at offset 0, as a sequence
po_country(panel, country) ==
    SelectSeq([i \in 1..Len(panel) |-> panel[i]],
              LAMBDA z : Upper(Txt[z.COUNTRY]) = Upper(Txt[country]) /\ z.PO # Null)

\* element k, from 0, of the values in ascending order
nth_smallest(zones, k) ==
    CHOOSE v \in {zones[i].PO : i \in 1..Len(zones)} :
        /\ Cardinality({i \in 1..Len(zones) : zones[i].PO < v}) <= k
        /\ k < Cardinality({i \in 1..Len(zones) : zones[i].PO <= v})

\* Series.quantile(0.40), linear interpolation at position 0.4 * (n - 1)
quantile_40(zones) ==
    IF (2 * (Len(zones) - 1)) % 5 = 0
    THEN <<nth_smallest(zones, (2 * (Len(zones) - 1)) \div 5), 1>>
    ELSE Fraction(5 * nth_smallest(zones, (2 * (Len(zones) - 1)) \div 5)
                    + ((2 * (Len(zones) - 1)) % 5)
                        * (nth_smallest(zones, (2 * (Len(zones) - 1)) \div 5 + 1)
                             - nth_smallest(zones, (2 * (Len(zones) - 1)) \div 5)),
                  5)

\* np.nanstd(orders["ORDERS"]) squared, over all the rows of the query
all_orders(panel) ==
    {<<i, w>> \in (1..Len(panel)) \X (0..5) : w \in opportunity_weeks(panel[i])}

RECURSIVE SumPairs(_, _, _)
SumPairs(pairs, panel, power) ==
    IF pairs = {} THEN 0
    ELSE LET p == CHOOSE q \in pairs : TRUE
         IN  (IF power = 2 THEN panel[p[1]].ORDERS[p[2]] * panel[p[1]].ORDERS[p[2]]
              ELSE panel[p[1]].ORDERS[p[2]])
             + SumPairs(pairs \ {p}, panel, power)

orders_variance(panel) ==
    Fraction(Cardinality(all_orders(panel)) * SumPairs(all_orders(panel), panel, 2)
                - SumPairs(all_orders(panel), panel, 1) * SumPairs(all_orders(panel), panel, 1),
             Cardinality(all_orders(panel)) * Cardinality(all_orders(panel)))

\* min(1.0, abs(slope) / (nanstd + 1e-9)), squared: the order of two
\* severities is the order of their squares
severity_squared(slope, variance) ==
    IF variance[1] = 0 \/ slope[1] * slope[1] * variance[2] >= variance[1] * slope[2] * slope[2]
    THEN <<1, 1>>
    ELSE Fraction(slope[1] * slope[1] * variance[2], variance[1] * slope[2] * slope[2])

opportunity_of(zone, slope, p40, variance) ==
    [category     |-> "opportunity",
     zone         |-> zone.ZONE,
     metric       |-> "Perfect Orders",
     severity     |-> severity_squared(slope, variance),
     orders_slope |-> slope,
     po           |-> zone.PO,
     po_p40       |-> p40]

\* the body of the loop for one zone: the insights it appends to out
opportunities_of(zone, panel) ==
    IF Cardinality(opportunity_weeks(zone)) < MIN_POINTS_TIME THEN <<>>
    ELSE IF orders_slope(zone)[1] <= 0 THEN <<>>
    ELSE IF po_country(panel, zone.COUNTRY) = <<>> THEN <<>>
    ELSE IF zone.PO = Null THEN <<>>
    ELSE IF zone.PO * quantile_40(po_country(panel, zone.COUNTRY))[2]
              < quantile_40(po_country(panel, zone.COUNTRY))[1]
    THEN <<opportunity_of(zone, orders_slope(zone),
                          quantile_40(po_country(panel, zone.COUNTRY)),
                          orders_variance(panel))>>
    ELSE <<>>

\* out after the loop over the zones, in the order of the groupby keys
RECURSIVE opportunities_out(_, _)
opportunities_out(zones, panel) ==
    IF zones = <<>> THEN <<>>
    ELSE opportunities_out(SubSeq(zones, 1, Len(zones) - 1), panel)
            \o opportunities_of(zones[Len(zones)], panel)

\* engine.detect_opportunities on a panel whose zones are in key order
detect_opportunities(panel) == SortedBySeverity(opportunities_out(panel, panel))

(***************************************************************************)
(* insights.engine.detect_trends                                           *)
(***************************************************************************)
\* A group of the panel is [zone, metric, VALUE]: VALUE[w] its value at
\* WEEK_OFFSET w in tenths, Null where it has no row.

\* config.TREND_MIN_RUN
TREND_MIN_RUN == 3

\* g.sort_values("WEEK_OFFSET")["VALUE"]: the values by week offset ascending
RECURSIVE values_from(_, _)
values_from(group, w) ==
    IF w > 8 THEN <<>>
    ELSE IF group.VALUE[w] = Null THEN values_from(group, w + 1)
    ELSE <<group.VALUE[w]>> \o values_from(group, w + 1)

trend_values(group) == values_from(group, 0)

\* engine._run_length: the loop from i = len(seq) - 1 down, run steps counted so far
RECURSIVE run_from(_, _, _, _)
run_from(seq, direction, i, run) ==
    IF i < 1 THEN run
    ELSE IF direction = "down" /\ seq[i + 1] - seq[i] < 0 THEN run_from(seq, direction, i - 1, run + 1)
    ELSE IF direction = "up" /\ seq[i + 1] - seq[i] > 0 THEN run_from(seq, direction, i - 1, run + 1)
    ELSE run

\* engine._run_length (seq[i] of the code is seq[i + 1] here)
run_length(seq, direction) ==
    IF Len(seq) < 2 THEN 0 ELSE run_from(seq, direction, Len(seq) - 1, 0)

RECURSIVE SumSeq(_, _, _)
\* the sum over the points of x^a * y^b, x = np.arange(len(vals))
SumSeq(vals, a, b) ==
    IF vals = <<>> THEN 0
    ELSE (IF a = 0 THEN 1 ELSE IF a = 1 THEN Len(vals) - 1 ELSE (Len(vals) - 1) * (Len(vals) - 1))
            * (IF b = 0 THEN 1 ELSE IF b = 1 THEN vals[Len(vals)] ELSE vals[Len(vals)] * vals[Len(vals)])
         + SumSeq(SubSeq(vals, 1, Len(vals) - 1), a, b)

\* n times the sums of squares and products about the means
Sxy(vals) == Len(vals) * SumSeq(vals, 1, 1) - SumSeq(vals, 1, 0) * SumSeq(vals, 0, 1)
Sxx(vals) == Len(vals) * SumSeq(vals, 2, 0) - SumSeq(vals, 1, 0) * SumSeq(vals, 1, 0)
Syy(vals) == Len(vals) * SumSeq(vals, 0, 2) - SumSeq(vals, 0, 1) * SumSeq(vals, 0, 1)

\* slope of linregress(x, vals)
trend_slope(vals) == Fraction(Sxy(vals), Sxx(vals))

\* r ** 2 of linregress, r being 0 for a constant series
r_squared(vals) ==
    IF Syy(vals) = 0 THEN <<0, 1>>
    ELSE Fraction(Sxy(vals) * Sxy(vals), Sxx(vals) * Syy(vals))

\* engine._severity_from_slope with scale = np.nanstd(vals), squared
severity_from_slope_squared(vals) ==
    IF Syy(vals) = 0 THEN <<0, 1>>
    ELSE IF 4 * Sxy(vals) * Sxy(vals) * Len(vals) * Len(vals) >= Sxx(vals) * Sxx(vals) * Syy(vals)
    THEN <<1, 1>>
    ELSE Fraction(4 * Sxy(vals) * Sxy(vals) * Len(vals) * Len(vals),
                  Sxx(vals) * Sxx(vals) * Syy(vals))

\* deterioro = (slope < 0 and pol) or (slope > 0 and not pol)
deterioro(vals, metric) ==
    IF DictGet(METRIC_POLARITY, metric, TRUE) THEN Sxy(vals) < 0 ELSE Sxy(vals) > 0

trend_of(group, vals) ==
    [category       |-> "trend",
     zone           |-> group.zone,
     metric         |-> group.metric,
     severity       |-> severity_from_slope_squared(vals),
     recommendation |-> DictGet(RECO_TEMPLATES, low_key(group.metric),
                                "Plan de recuperacion con acciones semanales y monitoreo"),
     slope          |-> trend_slope(vals),
     r2             |-> r_squared(vals),
     runs_down      |-> run_length(vals, "down")]

\* the body of the loop for one group: (deterioro and r2 >= TREND_MIN_R2, 0.20)
\* or (run_down >= TREND_MIN_RUN)
trends_of_values(group, vals) ==
    IF Len(vals) < MIN_POINTS_TIME THEN <<>>
    ELSE IF \/ deterioro(vals, group.metric) /\ 5 * r_squared(vals)[1] >= r_squared(vals)[2]
            \/ run_length(vals, "down") >= TREND_MIN_RUN
    THEN <<trend_of(group, vals)>>
    ELSE <<>>

trends_of(group) == trends_of_values(group, trend_values(group))

\* out after the loop over the groups, in the order of their keys
RECURSIVE trends_out(_)
trends_out(groups) ==
    IF groups = <<>> THEN <<>>
    ELSE trends_out(SubSeq(groups, 1, Len(groups) - 1)) \o trends_of(groups[Len(groups)])

\* engine.detect_trends on the groups of the panel, in key order
detect_trends(groups) == SortedBySeverity(trends_out(groups))

(***************************************************************************)
(* executor.execute: the multivariable branch                              *)
(*                                                                         *)
(* A zone of the panel is [COUNTRY, CITY, ZONE, LP, PO], LP and PO giving   *)
(* the VALUE of Lead Penetration and of Perfect Orders per WEEK_OFFSET,    *)
(* Null where the view has no value.  Averages and quantiles are exact     *)
(* fractions.                                                              *)
(***************************************************************************)
\* base: the weeks of the window where the zone has a value of the metric
metric_weeks(zone, metric, lo, hi) ==
    {w \in DOMAIN zone[metric] : lo <= w /\ w <= hi /\ zone[metric][w] # Null}

\* a NULL average or quantile
NoAverage == <<0, 0>>

\* AVG(CASE WHEN METRIC = metric THEN VALUE END)
average(zone, metric, lo, hi) ==
    IF metric_weeks(zone, metric, lo, hi) = {} THEN NoAverage
    ELSE Fraction(SumOver(metric_weeks(zone, metric, lo, hi), zone[metric]),
                  Cardinality(metric_weeks(zone, metric, lo, hi)))

\* wide: one row per (COUNTRY, CITY, ZONE) that has a row in base
in_wide(zone, f, lo, hi) ==
    /\ passes_filters(zone, f)
    /\ metric_weeks(zone, "LP", lo, hi) \cup metric_weeks(zone, "PO", lo, hi) # {}

wide_row(zone, lo, hi) ==
    [COUNTRY |-> zone.COUNTRY, CITY |-> zone.CITY, ZONE |-> zone.ZONE,
     LP |-> average(zone, "LP", lo, hi), PO |-> average(zone, "PO", lo, hi)]

wide(panel, f, lo, hi) ==
    {wide_row(panel[i], lo, hi) : i \in {j \in 1..Len(panel) : in_wide(panel[j], f, lo, hi)}}

\* the values of a column over the rows of wide of one country, NULLs aside
partition_values(wide_rows, country, column) ==
    {w \in wide_rows : w.COUNTRY = country /\ w[column] # NoAverage}

\* element k, from 0, of the column in ascending order
nth_value(part, column, k) ==
    CHOOSE v \in {w[column] : w \in part} :
        /\ Cardinality({w \in part : ~Leq(v, w[column])}) <= k
        /\ k < Cardinality({w \in part : Leq(w[column], v)})

\* lower + (r / den) * (upper - lower)
interpolate(lower, upper, r, den) ==
    Fraction(lower[1] * upper[2] * den + r * (upper[1] * lower[2] - lower[1] * upper[2]),
             lower[2] * upper[2] * den)

\* quantile_cont(column, num / 10) OVER (PARTITION BY COUNTRY): linear
\* interpolation at position (num / 10) * (n - 1) of the ascending values
quantile_cont(part, column, num) ==
    IF part = {} THEN NoAverage
    ELSE IF (num * (Cardinality(part) - 1)) % 10 = 0
    THEN nth_value(part, column, (num * (Cardinality(part) - 1)) \div 10)
    ELSE interpolate(nth_value(part, column, (num * (Cardinality(part) - 1)) \div 10),
                     nth_value(part, column, (num * (Cardinality(part) - 1)) \div 10 + 1),
                     (num * (Cardinality(part) - 1)) % 10, 10)

p70_lp(wide_rows, country) == quantile_cont(partition_values(wide_rows, country, "LP"), "LP", 7)
p30_po(wide_rows, country) == quantile_cont(partition_values(wide_rows, country, "PO"), "PO", 3)

\* stats: the window functions give one row per row of wide, each carrying
\* the quantiles of its country
stats(wide_rows) ==
    {[c |-> w.COUNTRY, of |-> <<w.COUNTRY, w.CITY, w.ZONE>>,
      p70_lp |-> p70_lp(wide_rows, w.COUNTRY), p30_po |-> p30_po(wide_rows, w.COUNTRY)] :
        w \in wide_rows}

\* wide w JOIN stats s ON w.COUNTRY = s.c WHERE ... : the pairs the query keeps
joined(wide_rows) ==
    {ws \in wide_rows \X stats(wide_rows) :
        /\ ws[1].COUNTRY = ws[2].c
        /\ ws[1].LP # NoAverage /\ ws[1].PO # NoAverage
        /\ ws[2].p70_lp # NoAverage /\ ws[2].p30_po # NoAverage
        /\ Leq(ws[2].p70_lp, ws[1].LP)
        /\ Leq(ws[1].PO, ws[2].p30_po)}

\* ORDER BY w.LP DESC, w.PO ASC
lp_desc_po_asc(a, b) ==
    \/ ~Leq(a.LP, b.LP)
    \/ a.LP = b.LP /\ Leq(a.PO, b.PO)

\* the rows of the pairs in the order of the query, one sequence per order
\* the query can give: a row of wide comes once per pair it has
rows_in_order(pairs) ==
    {p \in [1..Cardinality(pairs) -> {ws[1] : ws \in pairs}] :
        /\ \A i, j \in DOMAIN p : i < j => lp_desc_po_asc(p[i], p[j])
        /\ \A ws \in pairs :
              Cardinality({i \in DOMAIN p : p[i] = ws[1]})
                = Cardinality({vs \in pairs : vs[1] = ws[1]})}

\* the pairs the multivariable query keeps for the spec
multivariable_pairs(spec, panel) ==
    joined(wide(panel, spec.filters, offset_bounds(spec.time.range)[1],
                offset_bounds(spec.time.range)[2]))

(***************************************************************************)
(* State                                                                   *)
(***************************************************************************)
VARIABLES
    token,    \* the range string handed to _offset_bounds
    bounds,   \* what _offset_bounds returned
    state,    \* Memory.state
    before,   \* Memory.state as it was when the last call started
    arg,      \* the spec of the last (or, in SpecMemoryCall, the coming) call
    latest,   \* per field, the last non-empty value a spec carried since reset
    repeat,   \* SpecMemoryCall: how many times arg has been passed
    question, \* the question being parsed, as its words and phrases
    task,     \* what detect_task returned
    memory,   \* the memory snapshot handed to the parser
    env,      \* the catalogs the process has loaded
    reply,    \* what the language model answered, when it was asked
    parsed,   \* the AnalyticsSpec the parser returned
    who,      \* the session the last chat request came from
    shadow,   \* per session, the memory it would have with a Memory of its own
    alone,    \* the spec the last request would have got from that memory
    requests, \* chat requests handled so far
    ordering, \* what decide_order_and_n returned
    rows,     \* the rows of the warehouse a detector reads
    insights, \* the list of Insight a detector returned
    found,    \* per detector, whether it raises and the findings it collects
    report,   \* what generate_insights returned
    payload,  \* what execute returned
    connections \* the warehouse connections opened so far, in the order of the calls

offsetVars == <<token, bounds>>
memVars    == <<state, before, arg, latest, repeat>>
taskVars   == <<question, task>>
parseVars  == <<memory, env, reply, parsed>>
chatVars   == <<who, shadow, alone, requests>>
orderVars  == <<ordering>>
insightVars == <<rows, insights, found, report>>
execVars   == <<payload, connections>>

vars == <<token, bounds, state, before, arg, latest, repeat, question, task,
          memory, env, reply, parsed, who, shadow, alone, requests,
          ordering, rows, insights, found, report, payload, connections>>

\* the result slot before _offset_bounds has run
NotRun == <<>>

\* no update_from_spec call yet (or a reset since)
NoCall == [none |-> TRUE]

OffsetIdle == token = NoText /\ bounds = NotRun

\* no question asked, nothing parsed
NotParsed == "NotParsed"

TaskIdle == question = <<>> /\ task = NotParsed

NoSpec == [task |-> NotParsed]

Sessions == {"A", "B"}

ChatIdle ==
    /\ who = None
    /\ shadow = [s \in Sessions |-> NewMemory]
    /\ alone = NoSpec
    /\ requests = 0

\* decide_order_and_n has not run
NoOrder == [order |-> "NotRun", n |-> NoNumber]

OrderIdle == ordering = NoOrder

\* no detector has run
NotDetected == <<[category |-> "NotRun"]>>

\* generate_insights has not run
NoReport == [meta |-> "NotRun"]

InsightIdle ==
    /\ rows = <<>>
    /\ insights = NotDetected
    /\ found = <<>>
    /\ report = NoReport

\* execute has not run
NoPayload == [pending |-> TRUE]

ExecIdle == payload = NoPayload /\ connections = <<>>

ParseIdle ==
    /\ memory = EmptyDict
    /\ env = [catalog |-> "fallback", geo |-> "none"]
    /\ reply = NoKey
    /\ parsed = NoSpec

MemoryIdle ==
    /\ state = NewMemory
    /\ before = NewMemory
    /\ arg = NoCall
    /\ latest = [city |-> None, zone |-> None, zone_type |-> None]
    /\ repeat = 0

(***************************************************************************)
(* Inputs of _offset_bounds                                                *)
(***************************************************************************)
MaxWeeks  == 13   \* largest week number written in a token
MaxJunk   == 3    \* longest arbitrary string tried as a token

JunkAlphabet == {"L", "W", "-", "0", "2", "x"}

RECURSIVE StringsUpTo(_, _)
StringsUpTo(alphabet, n) ==
    IF n = 0 THEN {<<>>}
    ELSE LET shorter == StringsUpTo(alphabet, n - 1)
         IN  shorter \cup {Append(s, c) : s \in shorter, c \in alphabet}

\* 'LkW'
SingleToken(k) == <<"L">> \o Digits(k) \o <<"W">>

\* 'LaW-LbW'
RangeToken(a, b) == SingleToken(a) \o <<"-">> \o SingleToken(b)

WellFormedTokens ==
    {SingleToken(k) : k \in 0..MaxWeeks}
        \cup {RangeToken(a, b) : a \in 0..MaxWeeks, b \in 0..MaxWeeks}

Tokens ==
    {NoText}
        \cup WellFormedTokens
        \cup {Lower(t) : t \in WellFormedTokens}
        \cup {<<" ">> \o t \o <<" ">> : t \in WellFormedTokens}
        \cup {<<"L", "0">> \o Digits(k) \o <<"W", "-", "L", "0", "W">> : k \in 0..9}
        \cup {t \o <<"x">> : t \in WellFormedTokens}
        \cup {SubSeq(t, 1, Len(t) - 1) : t \in WellFormedTokens}
        \cup StringsUpTo(JunkAlphabet, MaxJunk)

InitOffset ==
    /\ token \in Tokens
    /\ bounds = NotRun
    /\ MemoryIdle
    /\ TaskIdle
    /\ ParseIdle
    /\ ChatIdle
    /\ OrderIdle
    /\ InsightIdle
    /\ ExecIdle

OffsetBounds ==
    /\ bounds = NotRun
    /\ bounds' = offset_bounds(token)
    /\ UNCHANGED <<token, memVars, taskVars, parseVars, chatVars,
                 orderVars, insightVars, execVars>>

NextOffset == OffsetBounds

SpecOffset == InitOffset /\ [][NextOffset]_vars

(***************************************************************************)
(* Memory.update_from_spec on any state and any spec, called twice         *)
(***************************************************************************)
MaxRepeat == 2   \* calls made with the same spec

Countries == {None, "", "Colombia", "Mexico"}
Cities    == {None, "", "Bogota"}
Zones     == {None, "Chapinero"}
ZoneTypes == {None, "Wealthy"}

FilterObjects ==
    [country : Countries, city : Cities, zone : Zones, zone_type : ZoneTypes]
        \cup {NoFilters}

GroupBys == {<<>>, <<"zone">>, <<"country">>, <<"zone_type", "COUNTRY">>}

Contexts ==
    {EmptyDict,
     [explicit_country |-> TRUE],
     [explicit_country |-> FALSE],
     [metric_label |-> "Orders"]}

MemorySpecs == [filters : FilterObjects, group_by : GroupBys, context : Contexts]

\* the states earlier calls can have left: each field None or a name
MemoryStates ==
    [country   : {None, "Colombia", "Mexico"},
     city      : {None, "Bogota", "Medellin"},
     zone      : {None, "Chapinero", "Usaquen"},
     zone_type : {None, "Wealthy", "Non Wealthy"}]

\* the value a spec carries for a field, None when it carries none
Carried(spec, field) ==
    LET v == FilterAttr(spec.filters, field)
    IN  IF v = "" THEN None ELSE v

\* a call MEM.update_from_spec(spec)
UpdateFromSpec(spec) ==
    /\ before' = state
    /\ arg' = spec
    /\ state' = update_from_spec(state, spec)
    /\ latest' = [f \in DOMAIN latest |->
                    IF Carried(spec, f) # None THEN Carried(spec, f) ELSE latest[f]]

\* a call MEM.reset()
Reset ==
    /\ before' = state
    /\ arg' = NoCall
    /\ state' = reset(state)
    /\ latest' = [f \in DOMAIN latest |-> None]
    /\ UNCHANGED <<repeat, offsetVars, taskVars, parseVars, chatVars,
                 orderVars, insightVars, execVars>>

InitMemoryCall ==
    /\ OffsetIdle
    /\ TaskIdle
    /\ ParseIdle
    /\ ChatIdle
    /\ OrderIdle
    /\ InsightIdle
    /\ ExecIdle
    /\ state \in MemoryStates
    /\ before = state
    /\ arg \in MemorySpecs
    /\ latest = [f \in {"city", "zone", "zone_type"} |-> state[f]]
    /\ repeat = 0

Call ==
    /\ repeat < MaxRepeat
    /\ UpdateFromSpec(arg)
    /\ repeat' = repeat + 1
    /\ UNCHANGED <<offsetVars, taskVars, parseVars, chatVars,
                 orderVars, insightVars, execVars>>

NextMemoryCall == Call

SpecMemoryCall == InitMemoryCall /\ [][NextMemoryCall]_vars

(***************************************************************************)
(* A Memory object through a conversation: any calls, any resets           *)
(***************************************************************************)
TurnFilters ==
    [country   : {None, "Colombia"},
     city      : {None, "", "Bogota", "Medellin"},
     zone      : {None, "Chapinero"},
     zone_type : {None, "Wealthy", "Non Wealthy"}]
        \cup {NoFilters}

TurnSpecs ==
    [filters  : TurnFilters,
     group_by : {<<>>, <<"country">>},
     context  : {[explicit_country |-> TRUE]}]

InitMemory ==
    /\ OffsetIdle
    /\ TaskIdle
    /\ ParseIdle
    /\ ChatIdle
    /\ OrderIdle
    /\ InsightIdle
    /\ ExecIdle
    /\ MemoryIdle

Update ==
    /\ \E spec \in TurnSpecs : UpdateFromSpec(spec)
    /\ UNCHANGED <<repeat, offsetVars, taskVars, parseVars, chatVars,
                 orderVars, insightVars, execVars>>

NextMemory ==
    \/ Update
    \/ Reset

SpecMemory == InitMemory /\ [][NextMemory]_vars

(***************************************************************************)
(* detect_task on questions made of the keywords of each class             *)
(***************************************************************************)
CompareWords    == {"Compara", "comparar", "diferencia entre"}
TrendWords      == {"evolucio'n", "tendencia", "trend"}
AggregateWords  == {"promedio", "media", "suma", "total"}
GrowthWords     == {"crecen", "crecimiento", "aumentan", "suben"}
ContextualWords == {"zonas  problema'ticas", "problematic"}
RankingWords    == {"top", "bottom", "mayor", "menor", "mejores", "peores"}

\* no word of the class, or one of them
Opt(words) == {<<>>} \cup {<<w>> : w \in words}

TaskQuestions ==
    {c \o t \o a \o hi \o lo \o g \o x \o r :
        c \in Opt(CompareWords), t \in Opt(TrendWords), a \in Opt(AggregateWords),
        hi \in Opt({"alto"}), lo \in Opt({"bajo"}), g \in Opt(GrowthWords),
        x \in Opt(ContextualWords), r \in Opt(RankingWords)}

InitTask ==
    /\ OffsetIdle
    /\ MemoryIdle
    /\ ParseIdle
    /\ ChatIdle
    /\ OrderIdle
    /\ InsightIdle
    /\ ExecIdle
    /\ question \in TaskQuestions
    /\ task = NotParsed

DetectTask ==
    /\ task = NotParsed
    /\ task' = detect_task(TextOf(question))
    /\ UNCHANGED <<question, offsetVars, memVars, parseVars, chatVars,
                 orderVars, insightVars, execVars>>

NextTask == DetectTask

SpecTask == InitTask /\ [][NextTask]_vars

(***************************************************************************)
(* to_spec and to_spec_llm on questions, memory snapshots and catalogs     *)
(***************************************************************************)
MaxWords == 3   \* phrases in a question

\* the phrases questions are made of
Vocabulary ==
    <<"Compara", "tendencia", "promedio", "alto Lead Penetration", "bajo Perfect Orders",
      "que aumentan", "en Colombia", "en Bogota'", "de Chapinero", "u'ltimas 3 semanas">>

\* the questions of at most n phrases, taken in the order of the vocabulary
\* from its phrase number first on
RECURSIVE Picks(_, _, _)
Picks(vocabulary, first, n) ==
    IF n = 0 \/ first > Len(vocabulary) THEN {<<>>}
    ELSE {<<>>} \cup UNION {{<<vocabulary[i]>> \o rest : rest \in Picks(vocabulary, i + 1, n - 1)} :
                              i \in first..Len(vocabulary)}

Questions == Picks(Vocabulary, 1, MaxWords)

Snapshots ==
    {NewMemory,
     [country |-> "Mexico", city |-> "Medellin", zone |-> "Poblado", zone_type |-> "Non Wealthy"]}

Environments == [catalog : {"fallback", "declared"}, geo : {"none", "warehouse"}]

\* an AnalyticsSpec the language model returned and pydantic validated
ValidatedSpecs ==
    {[task          |-> t,
      metrics       |-> <<"Perfect Orders">>,
      filters       |-> [country |-> c, city |-> None, zone |-> None, zone_type |-> None],
      group_by      |-> g,
      time          |-> [range |-> <<"L", "8", "W", "-", "L", "0", "W">>, compare_to |-> "none"],
      ops           |-> [agg |-> None],
      visualization |-> None,
      context       |-> EmptyDict] :
        t \in {"filter", "multivariable", "trend"},
        c \in {None, "Colombia"},
        g \in {<<>>, <<"country">>, <<"zone", "country">>}}

LLMReplies == {NoKey, LLMError} \cup {[kind |-> "spec", spec |-> v] : v \in ValidatedSpecs}

InitParse ==
    /\ OffsetIdle
    /\ MemoryIdle
    /\ task = NotParsed
    /\ question \in Questions
    /\ memory \in Snapshots
    /\ env \in Environments
    /\ reply = NoKey
    /\ parsed = NoSpec
    /\ ChatIdle
    /\ OrderIdle
    /\ InsightIdle
    /\ ExecIdle

\* to_spec(question, memory)
ToSpec ==
    /\ parsed = NoSpec
    /\ parsed' = to_spec(TextOf(question), memory, env)
    /\ UNCHANGED <<question, task, memory, env, reply, offsetVars, memVars, chatVars,
                 orderVars, insightVars, execVars>>

\* to_spec_llm(question, memory)
ToSpecLLM ==
    /\ parsed = NoSpec
    /\ \E r \in LLMReplies :
          /\ reply' = r
          /\ parsed' = to_spec_llm(TextOf(question), memory, env, r)
    /\ UNCHANGED <<question, task, memory, env, offsetVars, memVars, chatVars,
                 orderVars, insightVars, execVars>>

NextParse ==
    \/ ToSpec
    \/ ToSpecLLM

SpecParse == InitParse /\ [][NextParse]_vars

(***************************************************************************)
(* decide_order_and_n on ranking questions                                 *)
(***************************************************************************)
\* the phrases of ranking questions: counts, superlatives, trigger words
OrderVocabulary ==
    <<"stop", "top", "Top 5", "top cinco", "top 3ra", "bottom 3", "bottom  dos",
      "las 5 mejores", "los 3 peores", "peores", "el menor", "ma's alto", "mi'nimo",
      "zonas", "en mayo">>

OrderQuestions == Picks(OrderVocabulary, 1, MaxWords) \ {<<>>}

InitOrder ==
    /\ OffsetIdle
    /\ MemoryIdle
    /\ ParseIdle
    /\ ChatIdle
    /\ OrderIdle
    /\ InsightIdle
    /\ ExecIdle
    /\ task = NotParsed
    /\ question \in OrderQuestions

DecideOrder ==
    /\ ordering = NoOrder
    /\ ordering' = decide_order_and_n(TextOf(question))
    /\ UNCHANGED <<offsetVars, memVars, taskVars, parseVars, chatVars, insightVars, execVars>>

NextOrder == DecideOrder

SpecOrder == InitOrder /\ [][NextOrder]_vars

(***************************************************************************)
(* detect_anomalies on the current and previous week of two groups         *)
(***************************************************************************)
MaxValue == 10   \* the largest value of the panel, in tenths

\* the values a week of the first group can hold
PanelValues == ((-MaxValue)..MaxValue) \cup {Null}

\* the values a week of the second group can hold
PeerValues == {Null, 0, 5, 9, 10}

\* current rows joined to the previous week: one row per group, keys ascending
AnomalyRows ==
    {<<[zone |-> "Chapinero", metric |-> m, cur |-> c2, prev |-> p2],
       [zone |-> "Chapinero", metric |-> "Perfect Orders", cur |-> c1, prev |-> p1]>> :
        c1 \in PanelValues, p1 \in PanelValues, c2 \in PeerValues, p2 \in PeerValues,
        m \in {"Gross Profit UE", "Lead Penetration", "Orders"}}

InitAnomaly ==
    /\ OffsetIdle
    /\ MemoryIdle
    /\ TaskIdle
    /\ ParseIdle
    /\ ChatIdle
    /\ OrderIdle
    /\ ExecIdle
    /\ rows \in AnomalyRows
    /\ insights = NotDetected
    /\ found = <<>>
    /\ report = NoReport

DetectAnomalies ==
    /\ insights = NotDetected
    /\ insights' = detect_anomalies(rows)
    /\ UNCHANGED <<rows, found, report, offsetVars, memVars, taskVars, parseVars, chatVars,
                   orderVars, execVars>>

NextAnomaly == DetectAnomalies

SpecAnomaly == InitAnomaly /\ [][NextAnomaly]_vars

(***************************************************************************)
(* generate_insights on detectors that find, find nothing, or raise        *)
(***************************************************************************)
MaxFindings == 11   \* findings one detector collects, more than TOP_N

\* the finding number id of a category
Finding(category, id, severity) ==
    [category |-> category, id |-> id, severity |-> severity]

\* a list of nlow low findings followed by high ones, as a loop over groups
\* collects them: not in the order of severity
Collected(category, low, nlow, high, nhigh) ==
    [i \in 1..(nlow + nhigh) |->
        Finding(category, i, IF i <= nlow THEN low ELSE high)]

\* a detector that returns after collecting out
Returns(out) == [raises |-> FALSE, out |-> out]

\* a detector that raises after collecting one finding of the top severity
Raises(category) == [raises |-> TRUE, out |-> <<Finding(category, 1, <<1, 1>>)>>]

\* what a detector can do: raise, or return after collecting at most most findings
RunsOf(category, low, high, most) ==
    {Raises(category)} \cup
    {Returns(Collected(category, low, n[1], high, n[2])) :
        n \in {m \in (0..most) \X (0..most) : m[1] + m[2] <= most}}

DetectorRuns ==
    {[c \in {"anomaly", "trend", "benchmark", "correlation", "opportunity"} |->
        CASE c = "anomaly"     -> a
          [] c = "trend"       -> t
          [] c = "benchmark"   -> b
          [] c = "correlation" -> k
          [] c = "opportunity" -> o] :
        a \in RunsOf("anomaly", <<1, 4>>, <<1, 1>>, MaxFindings),
        t \in RunsOf("trend", <<1, 2>>, <<1, 1>>, 2),
        b \in RunsOf("benchmark", <<3, 4>>, <<3, 4>>, 1),
        k \in RunsOf("correlation", <<3, 4>>, <<3, 4>>, 1),
        o \in RunsOf("opportunity", <<3, 4>>, <<3, 4>>, 1)}

\* the warehouse file exists, so _open_con returns a connection
InitInsights ==
    /\ OffsetIdle
    /\ MemoryIdle
    /\ TaskIdle
    /\ ParseIdle
    /\ ChatIdle
    /\ OrderIdle
    /\ ExecIdle
    /\ rows = <<>>
    /\ insights = NotDetected
    /\ found \in DetectorRuns
    /\ report = NoReport

GenerateInsights ==
    /\ report = NoReport
    /\ report' = generate_insights(found)
    /\ \E released \in BOOLEAN :
          connections' = connections \o connection_of_generate_insights(released)
    /\ UNCHANGED <<rows, insights, found, offsetVars, memVars, taskVars, parseVars, chatVars,
                   orderVars, payload>>

NextInsights == GenerateInsights

SpecInsights == InitInsights /\ [][NextInsights]_vars

(***************************************************************************)
(* detect_correlations on the series of three metrics of one zone          *)
(***************************************************************************)
MaxSeries == 7   \* the weeks a metric has data for, from week 0 on

Shapes == {"rising", "falling", "zigzag"}

\* the value in week w of a series of the shape that is n weeks long
ShapeValue(shape, n, w) ==
    IF w >= n THEN Null
    ELSE IF shape = "rising" THEN w + 1
    ELSE IF shape = "falling" THEN n - w
    ELSE 1 + (w % 2)

Series == {[i \in 1..9 |-> ShapeValue(shape, n, i - 1)] : shape \in Shapes, n \in 0..MaxSeries}

CorrelationRows == [{"Lead Penetration", "Perfect Orders", "Orders"} -> Series]

InitCorrelation ==
    /\ OffsetIdle
    /\ MemoryIdle
    /\ TaskIdle
    /\ ParseIdle
    /\ ChatIdle
    /\ OrderIdle
    /\ ExecIdle
    /\ rows \in CorrelationRows
    /\ insights = NotDetected
    /\ found = <<>>
    /\ report = NoReport

DetectCorrelations ==
    /\ insights = NotDetected
    /\ insights' = detect_correlations(rows)
    /\ UNCHANGED <<rows, found, report, offsetVars, memVars, taskVars, parseVars, chatVars,
                   orderVars, execVars>>

NextCorrelation == DetectCorrelations

SpecCorrelation == InitCorrelation /\ [][NextCorrelation]_vars

(***************************************************************************)
(* execute on specs of every task, handled or not                          *)
(***************************************************************************)
\* a task outside TaskType, as a spec built without validation carries it
UnhandledTasks == {"forecast", ""}

\* the filters of a spec that names no place and no segment
Unfiltered == [country |-> None, city |-> None, zone |-> None, zone_type |-> None]

\* every combination of the four filters, set or not
ExecFilters ==
    [country : {None, "Colombia"}, city : {None, "Bogota'"}, zone : {None, "Chapinero"},
     zone_type : {None, "Non-Wealthy"}]

ExecSpecs ==
    [task          : HandledTasks \cup UnhandledTasks,
     metrics       : {<<"Orders">>, <<"Lead Penetration", "Perfect Orders">>},
     filters       : ExecFilters,
     time          : [range : {Txt["L8W-L0W"]}, compare_to : {"none"}],
     visualization : {None, "table"},
     ops           : [explain : BOOLEAN]]

\* what the query of a branch gives: rows, or an error
QueryResults == {<<>>, <<[ZONE |-> "Chapinero", VALUE |-> 7]>>, QueryError}

\* env.geo tells whether the warehouse file is there
InitExecute ==
    /\ OffsetIdle
    /\ MemoryIdle
    /\ TaskIdle
    /\ ChatIdle
    /\ OrderIdle
    /\ memory = EmptyDict
    /\ env \in {e \in Environments : e.catalog = "fallback"}
    /\ reply = NoKey
    /\ parsed \in ExecSpecs
    /\ rows \in QueryResults
    /\ insights = NotDetected
    /\ found = <<>>
    /\ report = NoReport
    /\ payload = NoPayload
    /\ connections = <<>>

Execute ==
    /\ payload = NoPayload
    /\ \E dev \in BOOLEAN :
          /\ payload' = execute(parsed, env.geo = "warehouse", parsed.ops.explain \/ dev, rows)
          /\ connections' = connections \o connection_of_execute(
                 execute(parsed, env.geo = "warehouse", parsed.ops.explain \/ dev, rows))
    /\ UNCHANGED <<offsetVars, memVars, taskVars, parseVars, chatVars, orderVars, insightVars>>

NextExecute == Execute

SpecExecute == InitExecute /\ [][NextExecute]_vars

(***************************************************************************)
(* to_spec and to_spec_llm on the questions of the documented scenarios    *)
(***************************************************************************)
\* the phrases of the scenario questions: metrics, segments, growth, time
ScenarioVocabulary ==
    <<"compara", "Perfect Orders", "entre wealthy", "y non wealthy", "zonas ricas",
      "zonas que ma's crecen", "en pedidos", "esta semana", "u'ltimas dos semanas">>

ScenarioQuestions == Picks(ScenarioVocabulary, 1, MaxWords)

InitScenario ==
    /\ OffsetIdle
    /\ MemoryIdle
    /\ task = NotParsed
    /\ question \in ScenarioQuestions
    /\ memory \in Snapshots
    /\ env \in Environments
    /\ reply = NoKey
    /\ parsed = NoSpec
    /\ ChatIdle
    /\ OrderIdle
    /\ InsightIdle
    /\ ExecIdle

SpecScenario == InitScenario /\ [][NextParse]_vars

(***************************************************************************)
(* to_spec on questions that name a segment of zones                       *)
(***************************************************************************)
\* the forms extract_zone_type recognises, as they come in a question
NonWealthyForms == <<"non wealthy", "non-wealthy", "no ricas", "populares">>
WealthyForms    == <<"wealthy", "ricas", "de altas rentas">>

SegmentVocabulary == <<"zonas">> \o NonWealthyForms \o WealthyForms \o <<"en Bogota'">>

SegmentQuestions == Picks(SegmentVocabulary, 1, MaxWords)

InitSegment ==
    /\ OffsetIdle
    /\ MemoryIdle
    /\ task = NotParsed
    /\ question \in SegmentQuestions
    /\ memory \in Snapshots
    /\ env \in Environments
    /\ reply = NoKey
    /\ parsed = NoSpec
    /\ ChatIdle
    /\ OrderIdle
    /\ InsightIdle
    /\ ExecIdle

NextSegment == ToSpec

SpecSegment == InitSegment /\ [][NextSegment]_vars

(***************************************************************************)
(* execute on an inference spec, over a panel of weekly orders             *)
(***************************************************************************)
MaxOrders == 3   \* the largest weekly orders of a zone

\* the week offsets of the panel: 0 is the current week, larger is older
PanelWeeks == 0..2

OrderSeries == [PanelWeeks -> {Null} \cup 1..MaxOrders]

OrdersPanels ==
    {<<[COUNTRY |-> "Colombia", CITY |-> "Bogota'", ZONE |-> "Chapinero", ORDERS |-> a],
       [COUNTRY |-> "Colombia", CITY |-> "Medellin", ZONE |-> "Poblado", ORDERS |-> b]>> :
        a \in OrderSeries, b \in OrderSeries}

InferenceSpecs ==
    [task          : {"inference"},
     metrics       : {<<"Orders">>},
     filters       : {Unfiltered, [Unfiltered EXCEPT !.city = "medellin"]},
     time          : [range : {Txt["L5W-L0W"], Txt["L2W-L0W"]}, compare_to : {"none"}],
     visualization : {"table"},
     ops           : [explain : {FALSE}, top_k : {NoNumber, 1}]]

InitInference ==
    /\ OffsetIdle
    /\ MemoryIdle
    /\ TaskIdle
    /\ ChatIdle
    /\ OrderIdle
    /\ memory = EmptyDict
    /\ env = [catalog |-> "fallback", geo |-> "warehouse"]
    /\ reply = NoKey
    /\ parsed \in InferenceSpecs
    /\ rows \in OrdersPanels
    /\ insights = NotDetected
    /\ found = <<>>
    /\ report = NoReport
    /\ payload = NoPayload
    /\ connections = <<>>

\* execute(spec) for an inference spec
ExecuteInference ==
    /\ payload = NoPayload
    /\ \E data \in inference_rows(parsed, rows), dev \in BOOLEAN :
          /\ payload' = execute(parsed, TRUE, parsed.ops.explain \/ dev, data)
          /\ connections' = connections \o connection_of_execute(
                 execute(parsed, TRUE, parsed.ops.explain \/ dev, data))
    /\ UNCHANGED <<offsetVars, memVars, taskVars, parseVars, chatVars, orderVars, insightVars>>

NextInference == ExecuteInference

SpecInference == InitInference /\ [][NextInference]_vars

(***************************************************************************)
(* detect_opportunities on a panel of three zones of one country           *)
(***************************************************************************)
MaxStep == 2   \* the largest weekly change of the orders of a zone

OrderShapes ==
    {[shape |-> s, step |-> k] : s \in {"growing", "declining"}, k \in 1..MaxStep}
        \cup {[shape |-> s, step |-> 0] : s \in {"flat", "short", "dip"}}

\* the orders at week offset w: a growing zone has its largest orders in the
\* current week, offset 0
OrdersAt(shape, w) ==
    CASE shape.shape = "growing"   -> 1 + shape.step * (5 - w)
      [] shape.shape = "declining" -> 1 + shape.step * w
      [] shape.shape = "flat"      -> 3
      [] shape.shape = "short"     -> IF w = 5 THEN Null ELSE 6 - w
      [] shape.shape = "dip"       -> IF w \in {2, 3} THEN 1 ELSE 4

\* Perfect Orders at offset 0, in tenths
POValues == {Null, 5, 8, 9}

OpportunityZone(city, zone, shape, po) ==
    [COUNTRY |-> "Colombia", CITY |-> city, ZONE |-> zone,
     ORDERS |-> [w \in 0..5 |-> OrdersAt(shape, w)], PO |-> po]

\* the zones in the order of the groupby keys (COUNTRY, CITY, ZONE)
OpportunityPanels ==
    {<<OpportunityZone("Bogota'", "Chapinero", s[1], po[1]),
       OpportunityZone("Bogota'", "Usaquen", s[2], po[2]),
       OpportunityZone("Medellin", "Poblado", s[3], po[3])>> :
        s \in [1..3 -> OrderShapes], po \in [1..3 -> POValues]}

InitOpportunity ==
    /\ OffsetIdle
    /\ MemoryIdle
    /\ TaskIdle
    /\ ParseIdle
    /\ ChatIdle
    /\ OrderIdle
    /\ ExecIdle
    /\ rows \in OpportunityPanels
    /\ insights = NotDetected
    /\ found = <<>>
    /\ report = NoReport

DetectOpportunities ==
    /\ insights = NotDetected
    /\ insights' = detect_opportunities(rows)
    /\ UNCHANGED <<rows, found, report, offsetVars, memVars, taskVars, parseVars, chatVars,
                   orderVars, execVars>>

NextOpportunity == DetectOpportunities

SpecOpportunity == InitOpportunity /\ [][NextOpportunity]_vars

(***************************************************************************)
(* detect_trends on the weekly values of two groups                        *)
(***************************************************************************)
MaxLevel == 3   \* the largest value of a week of the first group, in tenths

\* the values of the weeks 0..5 of the first group; week 5 can have no row
TrendSeries ==
    {[w \in 0..8 |-> IF w <= 4 THEN v[w + 1] ELSE IF w = 5 THEN last ELSE Null] :
        v \in [1..5 -> 1..MaxLevel], last \in {Null} \cup 1..MaxLevel}

\* the second group: seven weeks that rise toward the current week, fall
\* toward it, or stay level
PeerSeries ==
    {[w \in 0..8 |-> IF w > 6 THEN Null
                      ELSE IF shape = "rising" THEN 9 - w
                      ELSE IF shape = "falling" THEN 2 + w
                      ELSE 5] : shape \in {"rising", "falling", "level"}}

TrendRows ==
    {<<[zone |-> "Chapinero", metric |-> "Lead Penetration", VALUE |-> b],
       [zone |-> "Chapinero", metric |-> "Perfect Orders", VALUE |-> a]>> :
        a \in TrendSeries, b \in PeerSeries}

InitTrend ==
    /\ OffsetIdle
    /\ MemoryIdle
    /\ TaskIdle
    /\ ParseIdle
    /\ ChatIdle
    /\ OrderIdle
    /\ ExecIdle
    /\ rows \in TrendRows
    /\ insights = NotDetected
    /\ found = <<>>
    /\ report = NoReport

DetectTrends ==
    /\ insights = NotDetected
    /\ insights' = detect_trends(rows)
    /\ UNCHANGED <<rows, found, report, offsetVars, memVars, taskVars, parseVars, chatVars,
                   orderVars, execVars>>

NextTrend == DetectTrends

SpecTrend == InitTrend /\ [][NextTrend]_vars

(***************************************************************************)
(* The warehouse connections of a sequence of calls                        *)
(***************************************************************************)
MaxCalls == 2   \* the connections the calls open

\* one spec per way execute ends: a query that runs or fails, a query that
\* does not parse, a task without a branch
ConnSpecs ==
    {s \in ExecSpecs : /\ s.task \in {"filter", "contextual", "forecast"}
                       /\ s.filters = Unfiltered
                       /\ s.metrics = <<"Orders">>
                       /\ s.visualization = None
                       /\ ~s.ops.explain}

\* the detectors find nothing, or one of them raises
QuietRuns == [c \in {"anomaly", "trend", "benchmark", "correlation", "opportunity"} |-> Returns(<<>>)]

ConnRuns == {QuietRuns, [QuietRuns EXCEPT !["trend"] = Raises("trend")]}

InitConnections ==
    /\ OffsetIdle
    /\ MemoryIdle
    /\ TaskIdle
    /\ ChatIdle
    /\ OrderIdle
    /\ ExecIdle
    /\ memory = EmptyDict
    /\ env \in {e \in Environments : e.catalog = "fallback"}
    /\ reply = NoKey
    /\ parsed = NoSpec
    /\ rows = <<>>
    /\ insights = NotDetected
    /\ found = <<>>
    /\ report = NoReport

\* a call of execute(spec)
CallExecute ==
    /\ Len(connections) < MaxCalls
    /\ \E spec \in ConnSpecs, data \in QueryResults :
          /\ parsed' = spec
          /\ rows' = data
          /\ payload' = execute(spec, env.geo = "warehouse", spec.ops.explain, data)
          /\ connections' = connections \o connection_of_execute(
                 execute(spec, env.geo = "warehouse", spec.ops.explain, data))
    /\ UNCHANGED <<memory, env, reply, insights, found, report,
                   offsetVars, memVars, taskVars, chatVars, orderVars>>

\* a call of generate_insights(): _open_con raises when the warehouse file is
\* missing, before it connects
CallGenerateInsights ==
    /\ Len(connections) < MaxCalls
    /\ \E runs \in ConnRuns, released \in BOOLEAN :
          /\ found' = runs
          /\ report' = IF env.geo = "warehouse" THEN generate_insights(runs)
                       ELSE [raised |-> "RuntimeError"]
          /\ connections' = IF env.geo = "warehouse"
                            THEN connections \o connection_of_generate_insights(released)
                            ELSE connections
    /\ UNCHANGED <<rows, insights, payload, offsetVars, memVars, taskVars, parseVars, chatVars,
                   orderVars>>

\* the interpreter finalizes a connection no call closed
Finalize ==
    /\ \E i \in DOMAIN connections :
          /\ connections[i].state = "open"
          /\ connections' = [connections EXCEPT ![i].state = "finalized"]
    /\ UNCHANGED <<payload, offsetVars, memVars, taskVars, parseVars, chatVars, orderVars,
                   insightVars>>

NextConnections == CallExecute \/ CallGenerateInsights \/ Finalize

SpecConnections == InitConnections /\ [][NextConnections]_vars

(***************************************************************************)
(* execute on multivariable specs over panels of weekly LP and PO          *)
(***************************************************************************)
MaxMetric == 2   \* the largest value of a metric, in tenths

\* the weeks of the panel, 0 being the current week
MetricWeeks == 0..1

\* a metric over the weeks of the panel: a value for the current week or
\* none, and 1 or nothing for the week before when two weeks are given
MetricSeries(current, weeks) ==
    {s \in [MetricWeeks -> {Null} \cup 1..MaxMetric] :
        /\ s[0] \in current
        /\ s[1] \in (IF weeks = 2 THEN {Null, 1} ELSE {Null})}

MetricZone(country, city, zone, LPs, POs) ==
    [COUNTRY : {country}, CITY : {city}, ZONE : {zone}, LP : LPs, PO : POs]

\* two zones of one country, and a third zone of another country or the
\* zone of the first country with the highest Lead Penetration
MetricPanels ==
    {<<a, b, c>> :
        a \in MetricZone("CO", "Bogota", "Chapinero",
                         MetricSeries(1..MaxMetric, 2), MetricSeries({Null} \cup 1..MaxMetric, 1)),
        b \in MetricZone("CO", "Medellin", "Poblado",
                         MetricSeries(1..MaxMetric, 1), MetricSeries({Null} \cup 1..MaxMetric, 1)),
        c \in MetricZone("MX", "Puebla", "Centro", MetricSeries(1..MaxMetric, 1), MetricSeries(1..MaxMetric, 1))
              \cup MetricZone("CO", "Cali", "Granada", MetricSeries({MaxMetric}, 1), MetricSeries({Null, 1}, 1))}

MultivariableSpecs ==
    [task          : {"multivariable"},
     metrics       : {<<"Lead Penetration", "Perfect Orders">>},
     filters       : {Unfiltered, [Unfiltered EXCEPT !.country = "co"]},
     time          : [range : {Txt["L0W"], Txt["L1W-L0W"]}, compare_to : {"none"}],
     visualization : {"table"},
     ops           : [explain : {FALSE}]]

InitMultivariable ==
    /\ OffsetIdle
    /\ MemoryIdle
    /\ TaskIdle
    /\ ChatIdle
    /\ OrderIdle
    /\ ExecIdle
    /\ memory = EmptyDict
    /\ env = [catalog |-> "fallback", geo |-> "warehouse"]
    /\ reply = NoKey
    /\ parsed \in MultivariableSpecs
    /\ rows \in MetricPanels
    /\ insights = NotDetected
    /\ found = <<>>
    /\ report = NoReport

\* execute(spec) for a multivariable spec
ExecuteMultivariable ==
    /\ payload = NoPayload
    /\ \E pairs \in {multivariable_pairs(parsed, rows)} : \E data \in rows_in_order(pairs) :
          /\ payload' = execute(parsed, TRUE, parsed.ops.explain, data)
          /\ connections' = connections \o connection_of_execute(
                 execute(parsed, TRUE, parsed.ops.explain, data))
    /\ UNCHANGED <<offsetVars, memVars, taskVars, parseVars, chatVars, orderVars, insightVars>>

NextMultivariable == ExecuteMultivariable

SpecMultivariable == InitMultivariable /\ [][NextMultivariable]_vars

(***************************************************************************)
(* app.api.main: the /chat endpoint, one process, several sessions         *)
(***************************************************************************)
MaxRequests == 2   \* chat requests in a run

ChatQuestions ==
    {<<"pedidos">>, <<"promedio", "en Colombia">>, <<"en Colombia">>, <<"Mexico">>,
     <<"en Bogota'">>, <<"de Chapinero">>}

\* what the language model can answer in a chat
ChatReplies ==
    {NoKey,
     [kind |-> "spec",
      spec |-> [task          |-> "filter",
                metrics       |-> <<"Orders">>,
                filters       |-> [country |-> "Colombia", city |-> None,
                                   zone |-> None, zone_type |-> None],
                group_by      |-> <<"zone">>,
                time          |-> [range |-> <<"L", "0", "W">>, compare_to |-> "none"],
                ops           |-> [agg |-> None],
                visualization |-> "table",
                context       |-> EmptyDict]]}

InitChat ==
    /\ OffsetIdle
    /\ MemoryIdle
    /\ TaskIdle
    /\ memory = EmptyDict
    /\ env \in [catalog : {"fallback"}, geo : {"none", "warehouse"}]
    /\ reply = NoKey
    /\ parsed = NoSpec
    /\ ChatIdle
    /\ OrderIdle
    /\ InsightIdle
    /\ ExecIdle

\* to_spec_llm(inp.question, memory) if inp.use_llm else to_spec(inp.question, memory)
chat_spec(text, mem, use_llm, r) ==
    IF use_llm THEN to_spec_llm(text, mem, env, r) ELSE to_spec(text, mem, env)

\* POST /chat from session s.  execute(spec) runs after the memory update and
\* reads the warehouse only.
Chat(s, q, use_llm, r) ==
    /\ requests < MaxRequests
    /\ use_llm \/ r = NoKey
    /\ requests' = requests + 1
    /\ who' = s
    /\ question' = q
    /\ reply' = r
    /\ memory' = get(state)
    /\ \E spec \in {chat_spec(TextOf(q), get(state), use_llm, r)} :
          /\ parsed' = spec
          /\ UpdateFromSpec(spec)
    /\ \E own \in {chat_spec(TextOf(q), get(shadow[s]), use_llm, r)} :
          /\ alone' = own
          /\ shadow' = [shadow EXCEPT ![s] = update_from_spec(shadow[s], own)]
    /\ UNCHANGED <<repeat, task, env, offsetVars,
                 orderVars, insightVars, execVars>>

NextChat ==
    \E s \in Sessions, q \in ChatQuestions, use_llm \in BOOLEAN, r \in ChatReplies :
        Chat(s, q, use_llm, r)

SpecChat == InitChat /\ [][NextChat]_vars

(***************************************************************************)
(* The window grammar, as the executor reads it: case and surrounding      *)
(* blanks do not count, leading zeros are digits.                          *)
(***************************************************************************)
IsWeek(s) ==
    /\ Len(s) >= 3
    /\ s[1] = "L"
    /\ s[Len(s)] = "W"
    /\ \A i \in 2..(Len(s) - 1) : IsDigit(s[i])

IsWindowToken(t) ==
    /\ t # NoText
    /\ LET r == Upper(Strip(t))
       IN  \/ IsWeek(r)
           \/ \E i \in 1..Len(r) :
                 /\ r[i] = "-"
                 /\ IsWeek(SubSeq(r, 1, i - 1))
                 /\ IsWeek(SubSeq(r, i + 1, Len(r)))

\* C1: _offset_bounds resolves 'LkW-L0W' (k >= 1) to (0, k-1), 'L0W' to
\* (0, 0), and every token outside the window grammar, the empty and the
\* absent token included, to (0, 0).
C1_OffsetBounds ==
    bounds # NotRun =>
        /\ \A k \in 1..MaxWeeks : token = RangeToken(k, 0) => bounds = <<0, k - 1>>
        /\ token = SingleToken(0) => bounds = <<0, 0>>
        /\ ~IsWindowToken(token) => bounds = <<0, 0>>

C1_Witness ==
    /\ token = RangeToken(12, 0)
    /\ bounds = <<0, 11>>

(***************************************************************************)
(* Memory                                                                  *)
(***************************************************************************)
\* the spec names the country dimension in its group_by, in any letter case
NamesCountryDimension(spec) ==
    \E i \in 1..Len(spec.group_by) : spec.group_by[i] \in {"country", "Country", "COUNTRY"}

\* the spec carries a context that marks the country as explicit
MarksExplicit(spec) ==
    /\ "explicit_country" \in DOMAIN spec.context
    /\ spec.context["explicit_country"] = TRUE

\* C4: update_from_spec is idempotent: from every memory state and for every
\* spec, the second of two calls with the same spec changes nothing.
C4_Idempotent ==
    repeat >= 2 => state = before

C4_Witness ==
    /\ repeat = 2
    /\ MarksExplicit(arg)
    /\ arg.group_by = <<>>
    /\ FilterAttr(arg.filters, "country") = "Colombia"
    /\ FilterAttr(arg.filters, "city") = "Bogota"
    /\ FilterAttr(arg.filters, "zone") = "Chapinero"
    /\ state.country = "Colombia"
    /\ state.city = "Bogota"
    /\ state.zone = "Chapinero"

\* C5: after update_from_spec with a spec whose group_by contains "country"
\* in any letter case, the remembered country is None, whatever the country
\* remembered before, the spec's filters.country and its explicit_country.
C5_GroupByCountryClears ==
    (repeat >= 1 /\ NamesCountryDimension(arg)) => state.country = None

C5_Witness ==
    /\ repeat = 1
    /\ before.country = "Mexico"
    /\ arg.group_by = <<"zone_type", "COUNTRY">>
    /\ MarksExplicit(arg)
    /\ FilterAttr(arg.filters, "country") = "Colombia"
    /\ state.country = None

\* C6: after update_from_spec with a spec that does not group by country:
\* with a context that marks the country explicit the remembered country is
\* the spec's filters.country; with a context that does not, it is None;
\* with no context it is filters.country when present and None otherwise.
\* The country remembered before never survives.  (An empty filters.country
\* is no country: Carried reads it as None.)
C6_CountryHygiene ==
    (repeat >= 1 /\ ~NamesCountryDimension(arg)) =>
        /\ MarksExplicit(arg) => state.country = Carried(arg, "country")
        /\ (arg.context # EmptyDict /\ ~MarksExplicit(arg)) => state.country = None
        /\ arg.context = EmptyDict => state.country = Carried(arg, "country")

C6_Witness ==
    /\ repeat = 1
    /\ before.country = "Mexico"
    /\ arg.group_by = <<"zone">>
    /\ arg.context = [explicit_country |-> FALSE]
    /\ FilterAttr(arg.filters, "country") = "Colombia"
    /\ state.country = None

\* C7: with no reset in between, the remembered city, zone and zone_type
\* are each the value of the most recent spec that carried a non-empty one,
\* None if none did; a spec without a value for a field leaves that field as
\* it was; reset sets country, city, zone and zone_type to None.
C7_PersistedFields ==
    /\ \A f \in {"city", "zone", "zone_type"} :
          /\ state[f] = latest[f]
          /\ (arg # NoCall /\ Carried(arg, f) = None) => state[f] = before[f]
    /\ (arg = NoCall) => state = NewMemory

C7_Witness ==
    /\ arg # NoCall
    /\ before.city = "Bogota"
    /\ before.zone = "Chapinero"
    /\ Carried(arg, "city") = "Medellin"
    /\ Carried(arg, "zone") = None
    /\ state.city = "Medellin"
    /\ state.zone = "Chapinero"

(***************************************************************************)
(* Task detection                                                          *)
(***************************************************************************)
\* the question has a word of the class
Has(words) == \E i \in 1..Len(question) : question[i] \in words

\* the first class that applies, in the documented order
FirstMatch ==
    IF Has(CompareWords) THEN "compare"
    ELSE IF Has(TrendWords) THEN "trend"
    ELSE IF Has(AggregateWords) THEN "aggregate"
    ELSE IF Has({"alto"}) /\ Has({"bajo"}) THEN "multivariable"
    ELSE IF Has(GrowthWords) THEN "inference"
    ELSE IF Has(ContextualWords) THEN "contextual"
    ELSE IF Has(RankingWords) THEN "filter"
    ELSE "filter"

\* C10: detect_task is a first-match-wins decision list over the keyword
\* classes compare, trend, aggregate, alto-and-bajo (multivariable), growth
\* (inference), problematic zones (contextual), ranking (filter), and is
\* filter when no class applies.
C10_FirstMatchWins ==
    task # NotParsed => task = FirstMatch

C10_Witness ==
    /\ Has(AggregateWords)
    /\ Has({"top"})
    /\ Has(GrowthWords)
    /\ task = "aggregate"

(***************************************************************************)
(* The parser                                                              *)
(***************************************************************************)
\* the spec comes from to_spec: called directly, or by to_spec_llm when the
\* language model gave no spec
FromRules == parsed # NoSpec /\ reply.kind # "spec"

\* C2: a spec returned by to_spec with task multivariable has the metrics
\* Lead Penetration and Perfect Orders, whatever else the question says.
C2_MultivariableMetrics ==
    (FromRules /\ parsed.task = "multivariable")
        => parsed.metrics = <<"Lead Penetration", "Perfect Orders">>

\* C3: a spec returned by to_spec or to_spec_llm whose group_by contains
\* "country" has filters.country = None.
C3_GroupedCountryUnfiltered ==
    (parsed # NoSpec /\ \E i \in 1..Len(parsed.group_by) : parsed.group_by[i] = "country")
        => parsed.filters.country = None

C3_Witness ==
    /\ FromRules
    /\ question = <<"promedio", "en Colombia">>
    /\ parsed.group_by = <<"country">>
    /\ parsed.context["explicit_country"] = TRUE
    /\ parsed.filters.country = None

(***************************************************************************)
(* The chat endpoint                                                       *)
(***************************************************************************)
\* the phrases that name a country, a city or a zone
LocationPhrases == {"en Colombia", "Mexico", "en Bogota'", "de Chapinero"}

NamesNoLocation(q) == \A i \in 1..Len(q) : q[i] \notin LocationPhrases

\* C8: a chat request handled by the rule parser whose question names no
\* country and no known zone or city gets filters.country = None and leaves
\* the remembered country None, whatever the earlier requests named.
C8_CountryDoesNotStick ==
    (requests >= 1 /\ reply.kind # "spec" /\ NamesNoLocation(question)) =>
        /\ parsed.filters.country = None
        /\ state.country = None

C8_Witness ==
    /\ requests = 2
    /\ before.country = "Colombia"
    /\ memory.country = "Colombia"
    /\ question = <<"pedidos">>
    /\ reply = NoKey
    /\ parsed.filters.country = None
    /\ state.country = None

\* C9: the conversation memory is per session: the spec a request gets, in
\* particular its city, zone and zone_type filters, is the one it would get
\* if the other session had issued no request.
C9_SessionIsolation ==
    requests >= 1 =>
        \A f \in {"city", "zone", "zone_type"} : parsed.filters[f] = alone.filters[f]

(***************************************************************************)
(* The scenarios                                                           *)
(***************************************************************************)
Asks(phrase) == \E i \in 1..Len(question) : question[i] = phrase

\* C11: a question to_spec classifies as inference gets the metrics
\* ["Orders"] and, when it has no "u'ltimas N semanas" phrase, the range
\* L5W-L0W, also when it says "esta semana".
C11_InferenceIsOrdersOverFiveWeeks ==
    (FromRules /\ parsed.task = "inference") =>
        /\ parsed.metrics = <<"Orders">>
        /\ ~Asks("u'ltimas dos semanas") =>
              parsed.time.range = <<"L", "5", "W", "-", "L", "0", "W">>

C11_Witness ==
    /\ FromRules
    /\ question = <<"zonas que ma's crecen", "en pedidos">>
    /\ parsed.task = "inference"
    /\ parsed.metrics = <<"Orders">>
    /\ parsed.time.range = <<"L", "5", "W", "-", "L", "0", "W">>

AsksGrowth == Asks("zonas que ma's crecen")

\* C12: a question whose only metric mention is "Perfect Orders" (no order
\* word, no growth word) resolves to the metrics ["Perfect Orders"], with the
\* built-in fallback catalog as with a catalog that declares both metrics.
C12_PerfectOrdersResolved ==
    (FromRules /\ Asks("Perfect Orders") /\ ~Asks("en pedidos") /\ ~AsksGrowth) =>
        parsed.metrics = <<"Perfect Orders">>

\* the same statement for the declared catalog alone
C12_DeclaredCatalogResolves ==
    (FromRules /\ env.catalog = "declared"
               /\ Asks("Perfect Orders") /\ ~Asks("en pedidos") /\ ~AsksGrowth) =>
        parsed.metrics = <<"Perfect Orders">>

AsksBothSegments ==
    /\ Asks("entre wealthy") \/ Asks("zonas ricas")
    /\ Asks("y non wealthy")

\* C13: for every memory snapshot, a question that names both the wealthy
\* and the non-wealthy segment gets filters.zone_type = None: no segment is
\* guessed and none is inherited from the memory.
C13_BothSegmentsNoZoneType ==
    (FromRules /\ AsksBothSegments) => parsed.filters.zone_type = None

(***************************************************************************)
(* Ranking order                                                           *)
(***************************************************************************)
Ordered == ordering # NoOrder

\* C14: decide_order_and_n returns desc when the question has no ascending
\* word, and returns asc whenever the question has both a descending trigger
\* (top, mayor, mejor, max, ...) and worst/bottom language (bottom, peor,
\* peores, menor, ...), a 'top N' phrase such as 'top 5 peores' included.
C14_WorstLanguageWins ==
    Ordered =>
        /\ ~AnyIn(ASC_TRIGGERS, normalize(TextOf(question))) => ordering.order = "desc"
        /\ (/\ AnyIn(DESC_TRIGGERS, normalize(TextOf(question)))
            /\ AnyIn(WorstWords, normalize(TextOf(question))))
              => ordering.order = "asc"

\* the same statement for the questions none of the three counting patterns matches
C14_TieBreakOfTriggers ==
    (Ordered /\ ordering.n = NoNumber) =>
        /\ ~AnyIn(ASC_TRIGGERS, normalize(TextOf(question))) => ordering.order = "desc"
        /\ (/\ AnyIn(DESC_TRIGGERS, normalize(TextOf(question)))
            /\ AnyIn(WorstWords, normalize(TextOf(question))))
              => ordering.order = "asc"

(***************************************************************************)
(* Single-week tokens                                                      *)
(***************************************************************************)
\* C15: _offset_bounds resolves the single-week token 'LkW' to (k, k) for
\* every k >= 0, and the range token 'LaW-LbW' to the inclusive range
\* (min(a, b), max(a, b)).
C15_SingleWeekAndRange ==
    bounds # NotRun =>
        /\ \A k \in 0..MaxWeeks : token = SingleToken(k) => bounds = <<k, k>>
        /\ \A a, b \in 0..MaxWeeks :
              token = RangeToken(a, b) => bounds = <<Min(a, b), Max(a, b)>>

\* the range half of the statement, for ranges that do not end at L0W
C15_RangesNotToZero ==
    bounds # NotRun =>
        \A a \in 0..MaxWeeks, b \in 1..MaxWeeks :
            token = RangeToken(a, b) => bounds = <<Min(a, b), Max(a, b)>>

(***************************************************************************)
(* The anomaly detector                                                    *)
(***************************************************************************)
Detected == insights # NotDetected

\* the insights detect_anomalies returned for the group of the row
InsightsOf(row) ==
    {i \in 1..Len(insights) :
        insights[i].zone = row.zone /\ insights[i].metric = row.metric}

\* abs((cur - prev) / abs(prev)) >= n / d, for a row with both values and prev # 0
ChangeAtLeast(row, n, d) == Abs(row.cur - row.prev) * d >= n * Abs(row.prev)

\* C16: detect_anomalies skips a group whose previous value is null or zero;
\* otherwise, with pct = (cur - prev) / |prev|, it emits one insight iff
\* |pct| >= 0.10, carrying pct and the severity min(1, |pct| / 0.20), which
\* is 1 from |pct| >= 0.20 on and never decreases as |pct| grows; for
\* Perfect Orders at 0.70 after 0.80 it reports -0.125, severity 0.625, a
\* deterioration.
C16_AnomalySeverity ==
    Detected =>
        /\ \A g \in 1..Len(rows) :
              /\ rows[g].prev \in {Null, 0} => InsightsOf(rows[g]) = {}
              /\ rows[g].prev \notin {Null, 0} =>
                    /\ Cardinality(InsightsOf(rows[g])) =
                          (IF rows[g].cur # Null /\ ChangeAtLeast(rows[g], 1, 10) THEN 1 ELSE 0)
                    /\ \A i \in InsightsOf(rows[g]) :
                          /\ Equals(insights[i].pct_change,
                                    rows[g].cur - rows[g].prev, Abs(rows[g].prev))
                          /\ IF ChangeAtLeast(rows[g], 1, 5)
                             THEN Equals(insights[i].severity, 1, 1)
                             ELSE Equals(insights[i].severity,
                                         5 * Abs(rows[g].cur - rows[g].prev), Abs(rows[g].prev))
        /\ \A i, j \in 1..Len(insights) :
              Leq(<<Abs(insights[i].pct_change[1]), insights[i].pct_change[2]>>,
                  <<Abs(insights[j].pct_change[1]), insights[j].pct_change[2]>>)
                => Leq(insights[i].severity, insights[j].severity)
        /\ \A g \in 1..Len(rows) :
              (rows[g].metric = "Perfect Orders" /\ rows[g].cur = 7 /\ rows[g].prev = 8) =>
                  \E i \in InsightsOf(rows[g]) :
                      /\ Equals(insights[i].pct_change, -125, 1000)
                      /\ Equals(insights[i].severity, 625, 1000)
                      /\ insights[i].direction = "deterioro"
                      /\ insights[i].concerning

\* Perfect Orders fell from 0.80 to 0.70 next to a group that changed more
C16_Witness ==
    /\ Detected
    /\ Len(insights) = 2
    /\ insights[2].metric = "Perfect Orders"
    /\ insights[2].current = 7
    /\ insights[2].prev = 8
    /\ Equals(insights[2].severity, 625, 1000)
    /\ Equals(insights[1].severity, 1, 1)

(***************************************************************************)
(* The insight report                                                      *)
(***************************************************************************)
Reported == report # NoReport

Elements(seq) == {seq[i] : i \in 1..Len(seq)}

\* every finding the detectors that did not raise collected
AllFound ==
    UNION {Elements(found[Categories[c]].out) :
             c \in {d \in 1..Len(Categories) : ~found[Categories[d]].raises}}

Descending(seq) ==
    \A i \in 1..(Len(seq) - 1) : Leq(seq[i + 1].severity, seq[i].severity)

\* seq holds the n most severe findings of the set all, or all of them
TopOf(seq, n, all) ==
    /\ Len(seq) = Min(n, Cardinality(all))
    /\ Cardinality(Elements(seq)) = Len(seq)
    /\ Elements(seq) \subseteq all
    /\ Descending(seq)
    /\ \A f \in all \ Elements(seq) : \A e \in Elements(seq) : Leq(f.severity, e.severity)

\* C17: the executive summary is the 5 most severe findings (all, if fewer)
\* among all findings of the five detectors, in descending severity: cutting
\* each category at TOP_N never drops one of them, and every entry of the
\* summary is in the list of its category.
C17_ExecutiveIsGlobalTop5 ==
    Reported =>
        /\ TopOf(report.executive_summary, 5, AllFound)
        /\ \A e \in Elements(report.executive_summary) :
              e \in Elements(report[ReportKey[e.category]])

\* eleven anomalies are cut to ten and the summary draws on two categories
C17_Witness ==
    /\ Reported
    /\ Len(found["anomaly"].out) > TOP_N
    /\ Len(report.anomalies) = TOP_N
    /\ Len(report.executive_summary) = 5
    /\ \E e \in Elements(report.executive_summary) : e.category = "anomaly"
    /\ \E e \in Elements(report.executive_summary) : e.category = "trend"
    /\ \E f \in Elements(found["anomaly"].out) :
          /\ f \notin Elements(report.anomalies)
          /\ \E e \in Elements(report.executive_summary) : ~Leq(e.severity, f.severity)

\* C18: whichever detectors raise, generate_insights returns a report in
\* which the list of each failing detector is empty, the list of each other
\* detector is the TOP_N most severe findings that detector collected, and
\* the executive summary and meta.counts are built from those lists: no
\* failure changes the list of another category.
C18_DetectorFailuresAreIsolated ==
    Reported =>
        /\ \A c \in 1..Len(Categories) :
              /\ found[Categories[c]].raises => report[ReportKey[Categories[c]]] = <<>>
              /\ ~found[Categories[c]].raises =>
                    TopOf(report[ReportKey[Categories[c]]], TOP_N,
                          Elements(found[Categories[c]].out))
              /\ report.meta.counts[ReportKey[Categories[c]]] =
                    Len(report[ReportKey[Categories[c]]])
        /\ TopOf(report.executive_summary, 5,
                 UNION {Elements(report[ReportKey[Categories[c]]]) : c \in 1..Len(Categories)})
        /\ report.meta.counts.executive = Len(report.executive_summary)

\* two detectors raise and the other three still report
C18_Witness ==
    /\ Reported
    /\ found["anomaly"].raises
    /\ found["correlation"].raises
    /\ report.anomalies = <<>>
    /\ report.correlations = <<>>
    /\ Len(report.trends) = 2
    /\ Len(report.benchmarking) = 1
    /\ Len(report.opportunities) = 1
    /\ report.meta.counts.executive = 4

(***************************************************************************)
(* The correlation detector                                                *)
(***************************************************************************)
\* C19: detect_correlations emits nothing for a zone with fewer than 6 weeks
\* of data in the offsets 0..8, and every coefficient it flags is computed
\* from at least 6 time points.
C19_CoefficientsFromSixPoints ==
    Detected =>
        /\ Cardinality(WideWeeks(rows)) < MIN_POINTS_TIME => insights = <<>>
        /\ \A i \in 1..Len(insights) :
              Cardinality(Complete(rows, insights[i].metrics[1], insights[i].metrics[2]))
                  >= MIN_POINTS_TIME

\* the first half of the statement: no insight for a zone with fewer than 6 weeks
C19_FewWeeksNoInsight ==
    Detected => (Cardinality(WideWeeks(rows)) < MIN_POINTS_TIME => insights = <<>>)

(***************************************************************************)
(* The payload of execute                                                  *)
(***************************************************************************)
Executed == payload # NoPayload

\* C20: given a spec whose task is none of the seven handled tasks (and a
\* warehouse to connect to), execute does not raise and returns a payload of
\* the shape of a success: the keys title, data, visualization and
\* suggestions are there, next to the error.
C20_UnhandledTaskKeepsShape ==
    (Executed /\ parsed.task \notin HandledTasks /\ env.geo = "warehouse") =>
        {"title", "data", "visualization", "suggestions", "error"} \subseteq DOMAIN payload

\* the shape of the payload of a handled task whose query ran
C20_HandledTaskShape ==
    (Executed /\ parsed.task \in HandledTasks /\ "raised" \notin DOMAIN payload) =>
        /\ {"title", "data", "visualization", "suggestions"} \subseteq DOMAIN payload
        /\ "error" \notin DOMAIN payload

(***************************************************************************)
(* The overrides of the two parser paths                                   *)
(***************************************************************************)
FromLLM == parsed # NoSpec /\ reply.kind = "spec"

\* C21: for every question and every validated spec of the language model,
\* the metrics and the time range to_spec_llm leaves are those the override
\* step of to_spec (multivariable forcing, then growth of orders) gives on
\* the same spec and question.
C21_SameOverridesOnBothPaths ==
    FromLLM =>
        /\ parsed.metrics =
              force_orders_growth(force_multivariable(reply.spec), TextOf(question)).metrics
        /\ parsed.time.range =
              force_orders_growth(force_multivariable(reply.spec), TextOf(question)).time.range

\* the two paths agree on every question that does not say "pedidos"
C21_SameOverridesWithoutPedidos ==
    (FromLLM /\ ~Says(TextOf(question), "pedidos")) =>
        /\ parsed.metrics =
              force_orders_growth(force_multivariable(reply.spec), TextOf(question)).metrics
        /\ parsed.time.range =
              force_orders_growth(force_multivariable(reply.spec), TextOf(question)).time.range

(***************************************************************************)
(* The segment of zones                                                    *)
(***************************************************************************)
AsksOneOf(forms) == \E i \in 1..Len(forms) : Asks(forms[i])

\* C22: parsed with an empty memory, a question that mentions only the
\* non-wealthy segment, in any of its recognised forms, gets
\* filters.zone_type = "Non Wealthy", and a question that mentions only the
\* wealthy segment gets "Wealthy".
C22_OneSegmentIsItsZoneType ==
    (FromRules /\ memory = NewMemory) =>
        /\ (AsksOneOf(NonWealthyForms) /\ ~AsksOneOf(WealthyForms)) =>
              parsed.filters.zone_type = "Non Wealthy"
        /\ (AsksOneOf(WealthyForms) /\ ~AsksOneOf(NonWealthyForms)) =>
              parsed.filters.zone_type = "Wealthy"

\* the statement holds for the wealthy forms, and for "popular" alone
C22_WealthyAndPopular ==
    (FromRules /\ memory = NewMemory) =>
        /\ (Asks("populares") /\ ~Asks("non wealthy") /\ ~Asks("non-wealthy")
                              /\ ~Asks("no ricas") /\ ~AsksOneOf(WealthyForms)) =>
              parsed.filters.zone_type = "Non Wealthy"
        /\ (AsksOneOf(WealthyForms) /\ ~AsksOneOf(NonWealthyForms)) =>
              parsed.filters.zone_type = "Wealthy"

\* the forms that contain a wealthy form name no segment
C22_ContainedFormsGiveNone ==
    (FromRules /\ memory = NewMemory
       /\ (Asks("non wealthy") \/ Asks("non-wealthy") \/ Asks("no ricas"))) =>
        parsed.filters.zone_type = None

(***************************************************************************)
(* The location a request inherits                                         *)
(***************************************************************************)
\* the question names a city of the warehouse and no zone
NamesCityOnly == question = <<"en Bogota'">> /\ env.geo = "warehouse"

\* C23: a request handled by the rule parser whose question names a city and
\* no zone gets no zone from the memory: after any sequence of requests the
\* spec does not pair the city of the question with a zone remembered from
\* an earlier question.
C23_NamedCityTakesNoRememberedZone ==
    (requests >= 1 /\ reply.kind # "spec" /\ NamesCityOnly) =>
        /\ parsed.filters.city = "Bogota'"
        /\ parsed.filters.zone = None

\* the city of the question is the one the spec carries, and the country is
\* the one of that city
C23_NamedCityIsKept ==
    (requests >= 1 /\ reply.kind # "spec" /\ NamesCityOnly) =>
        /\ parsed.filters.city = "Bogota'"
        /\ parsed.filters.country = "Colombia"

\* to_spec alone, on a memory that holds a zone of another city: the spec
\* pairs the city of the question with that zone
C23_CityOfQuestionZoneOfMemory ==
    (FromRules /\ question = <<"en Bogota'">> /\ env.geo = "warehouse"
               /\ memory.zone = "Poblado") =>
        /\ parsed.filters.city = "Bogota'"
        /\ parsed.filters.zone = "Poblado"

(***************************************************************************)
(* The inference task                                                      *)
(***************************************************************************)
\* the zone has two weeks or more in the window and its orders strictly
\* increase (up) or decrease from the oldest week to the most recent one
Chronological(zone, lo, hi, up) ==
    /\ Cardinality(base_weeks(zone, lo, hi)) >= 2
    /\ \A older, newer \in base_weeks(zone, lo, hi) :
          older > newer =>
              IF up THEN zone.ORDERS[older] < zone.ORDERS[newer]
              ELSE zone.ORDERS[older] > zone.ORDERS[newer]

PlaceOf(data, zone) == {i \in 1..Len(data) : data[i].ZONE = zone.ZONE}

\* C24: in the result of the inference task a zone whose orders strictly
\* increase from the oldest to the most recent week of the window has a
\* positive slope and comes before a zone whose orders strictly decrease;
\* the result holds at most top_k zones (10 when top_k is absent), the
\* slopes descending.
C24_GrowingZonesRankFirst ==
    (Executed /\ parsed.task = "inference") =>
        /\ Len(payload.data) <= limit_of(parsed)
        /\ \A i, j \in 1..Len(payload.data) :
              i < j => slope_desc(payload.data[i], payload.data[j])
        /\ \A g, d \in 1..Len(rows) :
              (/\ Chronological(rows[g], slope_bounds(parsed)[1], slope_bounds(parsed)[2], TRUE)
               /\ Chronological(rows[d], slope_bounds(parsed)[1], slope_bounds(parsed)[2], FALSE)
               /\ parsed.filters = Unfiltered)
              => /\ \A i \in PlaceOf(payload.data, rows[g]) : payload.data[i].slope[1] > 0
                 /\ \A i \in PlaceOf(payload.data, rows[g]), j \in PlaceOf(payload.data, rows[d]) :
                       i < j
                 /\ PlaceOf(payload.data, rows[d]) # {} => PlaceOf(payload.data, rows[g]) # {}

\* the size and the order of the result are as stated: at most top_k zones
\* (10 when absent), the slopes descending
C24_TopKBySlopeDescending ==
    (Executed /\ parsed.task = "inference") =>
        /\ Len(payload.data) <= limit_of(parsed)
        /\ \A i, j \in 1..Len(payload.data) :
              i < j => slope_desc(payload.data[i], payload.data[j])

\* the slope the query computes is the one of orders against the week
\* offset: a zone whose orders grow toward the current week gets a negative
\* slope
C24_GrowingZoneHasNegativeSlope ==
    (Executed /\ parsed.task = "inference") =>
        \A g \in 1..Len(rows) :
            Chronological(rows[g], slope_bounds(parsed)[1], slope_bounds(parsed)[2], TRUE) =>
                \A i \in PlaceOf(payload.data, rows[g]) : payload.data[i].slope[1] < 0

(***************************************************************************)
(* The opportunity detector                                                *)
(***************************************************************************)
\* the orders of the zone strictly grow (up) or strictly fall from week
\* offset 5, the oldest, to offset 0, the current week
OverTime(zone, up) == Chronological(zone, 0, 5, up)

\* the place of week offset w among the weeks in chronological order: 0 for
\* the oldest week
TimeIndex(weeks, w) == Cardinality({v \in weeks : v > w})

\* the least-squares slope of the orders over the weeks in chronological order
SlopeOverTime(zone, weeks) ==
    slope_of(Cardinality(weeks),
             SumOver(weeks, [w \in weeks |-> TimeIndex(weeks, w)]),
             SumOver(weeks, [w \in weeks |-> zone.ORDERS[w]]),
             SumOver(weeks, [w \in weeks |-> TimeIndex(weeks, w) * zone.ORDERS[w]]),
             SumOver(weeks, [w \in weeks |-> TimeIndex(weeks, w) * TimeIndex(weeks, w)]))

\* C25: every opportunity insight is for a zone that has its 6 weekly orders
\* of offsets 0..5, whose least-squares slope of orders over the weeks in
\* chronological order is positive, and whose Perfect Orders at offset 0 is
\* strictly below the 40th percentile of its country; a zone whose orders
\* strictly decrease toward the current week is never reported.
C25_OpportunityIsGrowingDemand ==
    Detected =>
        \A i \in 1..Len(insights) : \A z \in 1..Len(rows) :
            insights[i].zone = rows[z].ZONE =>
                /\ opportunity_weeks(rows[z]) = 0..5
                /\ SlopeOverTime(rows[z], opportunity_weeks(rows[z]))[1] > 0
                /\ ~OverTime(rows[z], FALSE)
                /\ rows[z].PO * insights[i].po_p40[2] < insights[i].po_p40[1]

\* what holds of every opportunity insight: the six weeks, and the Perfect
\* Orders strictly below the 40th percentile of the country
C25_SixWeeksAndLaggingQuality ==
    Detected =>
        \A i \in 1..Len(insights) : \A z \in 1..Len(rows) :
            insights[i].zone = rows[z].ZONE =>
                /\ opportunity_weeks(rows[z]) = 0..5
                /\ rows[z].PO * insights[i].po_p40[2] < insights[i].po_p40[1]

\* the slope of every reported zone is negative in chronological order, and
\* a zone whose orders strictly grow toward the current week is never
\* reported
C25_GrowingZoneNeverReported ==
    Detected =>
        \A i \in 1..Len(insights) : \A z \in 1..Len(rows) :
            insights[i].zone = rows[z].ZONE =>
                /\ SlopeOverTime(rows[z], opportunity_weeks(rows[z]))[1] < 0
                /\ ~OverTime(rows[z], TRUE)

(***************************************************************************)
(* The recommendation of an anomaly                                        *)
(***************************************************************************)
\* the metrics the configuration has a low-performance template for
MetricsWithLowTemplate == {"Perfect Orders", "Lead Penetration", "Gross Profit UE"}

\* C27: a concerning anomaly on a metric that has a low-performance template
\* in the configuration carries that template as its recommendation, and an
\* anomaly that is not concerning carries the Benchmark_negative template.
C27_AnomalyCarriesItsTemplate ==
    Detected =>
        \A i \in 1..Len(insights) :
            /\ (insights[i].concerning /\ insights[i].metric \in MetricsWithLowTemplate) =>
                  insights[i].recommendation =
                      RECO_TEMPLATES[Txt[insights[i].metric] \o Txt["_low"]]
            /\ ~insights[i].concerning =>
                  insights[i].recommendation = RECO_TEMPLATES[Txt["Benchmark_negative"]]

\* an anomaly that is not concerning carries the Benchmark_negative template
C27_BenchmarkTemplate ==
    Detected =>
        \A i \in 1..Len(insights) :
            ~insights[i].concerning =>
                insights[i].recommendation = RECO_TEMPLATES[Txt["Benchmark_negative"]]

\* every concerning anomaly carries the default text, whatever its metric
C27_ConcerningGetsDefault ==
    Detected =>
        \A i \in 1..Len(insights) :
            insights[i].concerning =>
                insights[i].recommendation = "Profundizar causa raiz y plan de accion"

(***************************************************************************)
(* The trend detector                                                      *)
(***************************************************************************)
\* the group has a row for every week offset lo..hi
HasWeeks(group, lo, hi) == \A w \in lo..hi : group.VALUE[w] # Null

\* the value fell strictly in each of the last three weekly steps, from
\* offset 3 to 2 to 1 to 0
FellLastThreeWeeks(group) ==
    /\ HasWeeks(group, 0, 3)
    /\ \A w \in 0..2 : group.VALUE[w] < group.VALUE[w + 1]

\* the value rose strictly in every weekly step toward the current week
RoseEveryWeek(group) ==
    \A older, newer \in 0..8 :
        (older > newer /\ group.VALUE[older] # Null /\ group.VALUE[newer] # Null) =>
            group.VALUE[older] < group.VALUE[newer]

Flagged(group) == InsightsOf(group) # {}

\* C26: for a higher-is-better series of at least 6 points, the decline run
\* is the number of most recent consecutive weekly declines ending at offset
\* 0: a series that fell strictly in each of its last three weekly steps is
\* flagged, and a series that rose strictly in every weekly step toward the
\* current week is not flagged.
C26_RecentDeclinesAreFlagged ==
    Detected =>
        \A g \in 1..Len(rows) :
            Len(trend_values(rows[g])) >= MIN_POINTS_TIME =>
                /\ FellLastThreeWeeks(rows[g]) => Flagged(rows[g])
                /\ RoseEveryWeek(rows[g]) => ~Flagged(rows[g])

\* what the detector does with a series of at least 6 points: one that rose
\* strictly in every weekly step toward the current week is flagged, one
\* that fell strictly in every weekly step is not
C26_RisingSeriesIsFlagged ==
    Detected =>
        \A g \in 1..Len(rows) :
            Len(trend_values(rows[g])) >= MIN_POINTS_TIME =>
                /\ RoseEveryWeek(rows[g]) => Flagged(rows[g])
                /\ (\A older, newer \in 0..8 :
                       (older > newer /\ rows[g].VALUE[older] # Null
                                      /\ rows[g].VALUE[newer] # Null) =>
                           rows[g].VALUE[older] > rows[g].VALUE[newer])
                     => ~Flagged(rows[g])

\* a series of fewer than 6 points is never flagged
C26_ShortSeriesNotFlagged ==
    Detected =>
        \A g \in 1..Len(rows) :
            Len(trend_values(rows[g])) < MIN_POINTS_TIME => ~Flagged(rows[g])

(***************************************************************************)
(* The query of the contextual task                                        *)
(***************************************************************************)
\* C30: for a contextual spec with any combination of country, city, zone
\* and zone_type filters (none included), the selections of the current and
\* of the previous week have their predicates introduced by WHERE, and
\* execute returns the flagged rows the warehouse gives, not an error.
C30_ContextualSelectionsStartWithWhere ==
    (Executed /\ parsed.task = "contextual" /\ env.geo = "warehouse" /\ rows # QueryError) =>
        /\ \A week \in {0, 1} : contextual_selection(parsed, week)[1].keyword = "WHERE"
        /\ "raised" \notin DOMAIN payload
        /\ payload.data = rows

\* the selections of the six other handled tasks start with WHERE, and their
\* filter fragments follow it, one per filter that is set
C30_OtherTasksStartWithWhere ==
    (Executed /\ parsed.task \in HandledTasks \ {"contextual"}) =>
        /\ sql_parses(selections_of(parsed))
        /\ Len(filters_where(parsed.filters))
             = Cardinality({k \in DOMAIN parsed.filters : parsed.filters[k] # None})
        /\ (env.geo = "warehouse" /\ rows # QueryError) => payload.data = rows

\* the contextual task raises for every combination of filters: its first
\* predicate is introduced by AND
C30_ContextualAlwaysRaises ==
    (Executed /\ parsed.task = "contextual" /\ env.geo = "warehouse") =>
        /\ payload = [raised |-> "duckdb.ParserException"]
        /\ \A week \in {0, 1} : contextual_selection(parsed, week)[1].keyword = "AND"

(***************************************************************************)
(* The warehouse connections                                               *)
(***************************************************************************)
\* C28: after any sequence of calls of execute and generate_insights, calls
\* whose query fails included, no connection they opened remains open: each
\* was closed, or released, by the time the call that opened it ended.
C28_NoConnectionRemainsOpen ==
    \A i \in DOMAIN connections : connections[i].state # "open"

\* a call of execute that returns closed the connection it opened
C28_ReturningExecuteCloses ==
    [][(parsed' # parsed /\ "raised" \notin DOMAIN payload') =>
          /\ Len(connections') = Len(connections) + 1
          /\ connections'[Len(connections')] = [by |-> "execute", state |-> "closed"]]_vars

\* a call of execute whose query raises leaves its connection open, and no
\* connection of generate_insights is ever closed by a call
C28_RaisingQueryLeavesOpen ==
    [][(parsed' # parsed /\ "raised" \in DOMAIN payload' /\ env.geo = "warehouse") =>
          /\ Len(connections') = Len(connections) + 1
          /\ connections'[Len(connections')] = [by |-> "execute", state |-> "open"]]_vars

C28_GenerateInsightsNeverCloses ==
    \A i \in DOMAIN connections :
        connections[i].by = "generate_insights" => connections[i].state # "closed"

(***************************************************************************)
(* The rows of the multivariable task                                      *)
(***************************************************************************)
\* the rows of wide for the spec and the panel of the state
WideNow ==
    wide(rows, parsed.filters, offset_bounds(parsed.time.range)[1],
         offset_bounds(parsed.time.range)[2])

\* the zones with LP at or above the 70th percentile and PO at or below the
\* 30th percentile of their country
Qualifying ==
    {w \in WideNow :
        /\ w.LP # NoAverage /\ w.PO # NoAverage
        /\ Leq(p70_lp(WideNow, w.COUNTRY), w.LP)
        /\ Leq(w.PO, p30_po(WideNow, w.COUNTRY))}

Times(w) == Cardinality({i \in DOMAIN payload.data : payload.data[i] = w})

Answered == Executed /\ parsed.task = "multivariable" /\ "data" \in DOMAIN payload

\* C29: the multivariable task returns exactly one row for each zone whose
\* window-average LP is at or above the 70th percentile of its country and
\* whose window-average PO is at or below the 30th percentile of its
\* country, and no other row; no zone is repeated, whatever the number of
\* zones of its country.
C29_OneRowPerQualifyingZone ==
    Answered =>
        /\ \A i \in DOMAIN payload.data : payload.data[i] \in Qualifying
        /\ \A w \in Qualifying : Times(w) = 1

\* the rows are the qualifying zones and no other, by LP descending, then PO
\* ascending
C29_RowsAreQualifyingZonesInOrder ==
    Answered =>
        /\ {payload.data[i] : i \in DOMAIN payload.data} = Qualifying
        /\ \A i, j \in DOMAIN payload.data :
              i < j => /\ Leq(payload.data[j].LP, payload.data[i].LP)
                       /\ payload.data[j].LP = payload.data[i].LP
                            => Leq(payload.data[i].PO, payload.data[j].PO)

\* a qualifying zone comes once per zone of its country that has a row in
\* the window
C29_OnceForEachZoneOfTheCountry ==
    Answered =>
        \A w \in Qualifying : Times(w) = Cardinality({v \in WideNow : v.COUNTRY = w.COUNTRY})

====
